---- MODULE Spec2Model ----
(***************************************************************************)
(* Block 'Burb game engine (block-burb-app/src/game).                      *)
(*                                                                         *)
(* engine.ts holds two engines: the directional-relocation engine (lines   *)
(* 1-396) and the slide-and-merge engine (lines 398-1049).  Boards are     *)
(* JavaScript arrays of tile objects.  `boards` maps a board reference to   *)
(* the matrix of that array; a cell holds the fields of its tile object    *)
(* together with `obj`, the identity of the object.  A write to a tile     *)
(* object is a write to every cell, of every board, that holds the object. *)
(* A GameState holds a board reference.  Tile ids "tile-<n>" are modelled  *)
(* by the number n.  Fractions of the configuration are modelled in        *)
(* percent.                                                                *)
(***************************************************************************)
EXTENDS Integers, Sequences, FiniteSets, TLC

VARIABLES variant, rawConfig, game, boards, hist, lastOp, tileCounter, probe

vars == <<variant, rawConfig, game, boards, hist, lastOp, tileCounter, probe>>

(***************************************************************************)
(* Bounds of the model.                                                    *)
(***************************************************************************)
\* number of earlier returned boards that are kept for comparison
MaxHist == 1
\* number of accepted turns of a slide-and-merge game that are explored
MaxSlideTurns == 2

(***************************************************************************)
(* Generic helpers.                                                        *)
(***************************************************************************)
Abs(x) == IF x < 0 THEN 0 - x ELSE x

Max(a, b) == IF a > b THEN a ELSE b

Min(a, b) == IF a < b THEN a ELSE b

\* Math.round(num / den) for num >= 0, den > 0: round half up
RoundDiv(num, den) == (2 * num + den) \div (2 * den)

\* The pairs <<s, t>>, t <= 480 (the adjacent pairs of a 16 x 16 board), for
\* which the double (s / t) * 100 falls just below an exact half, so that
\* Math.round gives one less than RoundDiv.
FloatBelowHalf ==
  { <<23, 40>>, <<46, 80>>, <<69, 120>>, <<92, 160>>, <<29, 200>>, <<57, 200>>,
    <<113, 200>>, <<115, 200>>, <<138, 240>>, <<161, 280>>, <<184, 320>>,
    <<207, 360>>, <<58, 400>>, <<114, 400>>, <<226, 400>>, <<230, 400>>,
    <<253, 440>>, <<276, 480>> }

\* Math.round((part / total) * 100) as computed with doubles
RoundPct(part, total) ==
  IF <<part, total>> \in FloatBelowHalf
  THEN RoundDiv(100 * part, total) - 1
  ELSE RoundDiv(100 * part, total)

Size(cells) == Cardinality(DOMAIN cells)

Coord(r, c) == [row |-> r, col |-> c]

NoCoord == [row |-> 0 - 1, col |-> 0 - 1]

\* the cells of a board numbered in row-major order, as allCoordinates does
CellIndexes(size) == 0 .. size * size - 1

allCoordinates(size) == { Coord(k \div size, k % size) : k \in CellIndexes(size) }

Directions == {"up", "down", "left", "right"}

\* the object identity of no object
NoObj == <<0, 0>>

\* the identities of the tile objects stored in a matrix
ObjsOf(cells) == { cells[r][c].obj : r \in DOMAIN cells, c \in DOMAIN cells } \ {NoObj}

(***************************************************************************)
(* Heap: allocation of board objects, aliasing, garbage collection.        *)
(***************************************************************************)
EmptyHeap == [x \in {} |-> 0]

\* a board reference that no live state uses
FreshBoardRef(bh) == CHOOSE b \in 1 .. Cardinality(DOMAIN bh) + 1 :
                        b \notin DOMAIN bh /\ \A x \in 1 .. b - 1 : x \in DOMAIN bh

\* the identity of the copy of the tile in cell (r, c) made for board nb
CopyObj(nb, size, r, c) == <<nb, r * size + c + 1>>

\* the identity of a tile object created with a new id while working on board nb
CreatedObj(nb, size, id) == <<nb, size * size + id>>

cloneBoardSharingTiles(cells, nb) == cells

\* board.map(row => row.map(cell => cell === null ? null : { ...cell })):
\* a new matrix whose tiles are new objects with the same fields
cloneBoard(cells, nb) ==
  [r \in DOMAIN cells |-> [c \in DOMAIN cells |->
     IF cells[r][c].obj = NoObj THEN cells[r][c]
     ELSE [cells[r][c] EXCEPT !.obj = CopyObj(nb, Size(cells), r, c)]]]

\* the heap after the working matrix `cells` of board nb has been written:
\* every other board sees the fields of the tile objects it shares with nb
StoreBoard(bh, nb, cells) ==
  LET objs == ObjsOf(cells)
      n == Size(cells)
      written(obj) == LET k == CHOOSE i \in CellIndexes(n) : cells[i \div n][i % n].obj = obj
                      IN cells[k \div n][k % n]
  IN [b \in DOMAIN bh \cup {nb} |->
       IF b = nb THEN cells
       ELSE [r \in DOMAIN bh[b] |-> [c \in DOMAIN bh[b] |->
               IF bh[b][r][c].obj \in objs THEN written(bh[b][r][c].obj) ELSE bh[b][r][c]]]]

\* boards no kept state refers to are dropped
Retain(bh, states) == [b \in { s.board : s \in states } |-> bh[b]]

\* what the board of a returned state looked like when it was returned
Snapshot(state, bh) == [board |-> state.board, cells |-> bh[state.board]]

\* the snapshots of the last MaxHist board objects that were returned; a board
\* object that is returned again keeps its first snapshot
Push(h, e) ==
  IF Len(h) > 0 /\ h[Len(h)].board = e.board THEN h
  ELSE LET a == Append(h, e) IN IF Len(a) > MaxHist THEN Tail(a) ELSE a

(***************************************************************************)
(* Directional-relocation engine, engine.ts lines 1-396.                   *)
(***************************************************************************)
\* the cell value null of the relocation engine
NoTile == [obj |-> NoObj, id |-> 0, color |-> "none", unhappy |-> FALSE]

createEmptyBoard(size) == [r \in 0 .. size - 1 |-> [c \in 0 .. size - 1 |-> NoTile]]

isInBounds(cells, row, col) == row >= 0 /\ col >= 0 /\ row < Size(cells) /\ col < Size(cells)

isHousehold(cell) == cell # NoTile

\* the four steps of `directions`
orthogonalSteps == { <<0 - 1, 0>>, <<1, 0>>, <<0, 0 - 1>>, <<0, 1>> }

\* isHappy satisfied by an orthogonal neighbour of any colour
isHappyByAnyHousehold(cells, row, col) ==
  \/ ~isHousehold(cells[row][col])
  \/ \E d \in {<<0 - 1, 0>>, <<1, 0>>, <<0, 0 - 1>>, <<0, 1>>} :
       /\ isInBounds(cells, row + d[1], col + d[2])
       /\ isHousehold(cells[row + d[1]][col + d[2]])

isHappy(cells, row, col) ==
  LET tile == cells[row][col]
  IN IF ~isHousehold(tile) THEN TRUE
     ELSE \E step \in orthogonalSteps :
            /\ isInBounds(cells, row + step[1], col + step[2])
            /\ isHousehold(cells[row + step[1]][col + step[2]])
            /\ cells[row + step[1]][col + step[2]].color = tile.color

\* sets tile.unhappy of every tile object on the board
recomputeHappiness(cells) ==
  [r \in DOMAIN cells |-> [c \in DOMAIN cells |->
     IF ~isHousehold(cells[r][c]) THEN cells[r][c]
     ELSE [cells[r][c] EXCEPT !.unhappy = ~isHappy(cells, r, c)]]]

countUnhappy(cells) ==
  LET n == Size(cells)
  IN Cardinality({ k \in CellIndexes(n) :
                     isHousehold(cells[k \div n][k % n]) /\ cells[k \div n][k % n].unhappy })

countVacancies(cells) ==
  LET n == Size(cells)
  IN Cardinality({ k \in CellIndexes(n) : cells[k \div n][k % n] = NoTile })

\* same / mixed pairs over the neighbours right and down of every household
adjacencyStatsReloc(cells) ==
  LET n == Size(cells)
      at(k) == cells[k \div n][k % n]
      rightOf == { k \in CellIndexes(n) : (k % n) + 1 < n /\ isHousehold(at(k)) /\ isHousehold(at(k + 1)) }
      downOf == { k \in CellIndexes(n) : (k \div n) + 1 < n /\ isHousehold(at(k)) /\ isHousehold(at(k + n)) }
      same == Cardinality({ k \in rightOf : at(k + 1).color = at(k).color })
                + Cardinality({ k \in downOf : at(k + n).color = at(k).color })
  IN [same |-> same, mixed |-> Cardinality(rightOf) + Cardinality(downOf) - same]

calculateSegregationIndexReloc(cells) ==
  LET st == adjacencyStatsReloc(cells)
      total == st.same + st.mixed
  IN IF total = 0 THEN 0 ELSE RoundPct(st.same, total)

calculateIntegrationIndexReloc(cells) ==
  LET st == adjacencyStatsReloc(cells)
      total == st.same + st.mixed
  IN IF total = 0 THEN 0 ELSE RoundPct(st.mixed, total)

NullMove == [present |-> FALSE, from |-> NoCoord, to |-> NoCoord, direction |-> "none", trail |-> <<>>]

summaryForBoard(cells, unhappyBefore, selectedValid, moved, lastMove) ==
  [moved |-> moved,
   selectedValid |-> selectedValid,
   unhappyBefore |-> unhappyBefore,
   unhappyAfter |-> countUnhappy(cells),
   segregationIndex |-> calculateSegregationIndexReloc(cells),
   integrationIndex |-> calculateIntegrationIndexReloc(cells),
   vacancyCount |-> countVacancies(cells),
   lastMove |-> lastMove]

isInDirectionOrLevel(from, to, direction) ==
  CASE direction = "up" -> to.row <= from.row
    [] direction = "down" -> to.row >= from.row
    [] direction = "left" -> to.col <= from.col
    [] OTHER -> to.col >= from.col

isInDirection(from, to, direction) ==
  CASE direction = "up" -> to.row < from.row
    [] direction = "down" -> to.row > from.row
    [] direction = "left" -> to.col < from.col
    [] OTHER -> to.col > from.col

compareDirectionalTieBreak(from, a, b, direction) ==
  CASE direction = "up" ->
         IF a.row # b.row THEN a.row - b.row
         ELSE Abs(a.col - from.col) - Abs(b.col - from.col)
    [] direction = "down" ->
         IF a.row # b.row THEN b.row - a.row
         ELSE Abs(a.col - from.col) - Abs(b.col - from.col)
    [] direction = "left" ->
         IF a.col # b.col THEN a.col - b.col
         ELSE Abs(a.row - from.row) - Abs(b.row - from.row)
    [] OTHER ->
         IF a.col # b.col THEN b.col - a.col
         ELSE Abs(a.row - from.row) - Abs(b.row - from.row)

manhattanDistance(a, b) == Abs(a.row - b.row) + Abs(a.col - b.col)

vacancyCompareDirectionFirst(from, a, b, direction) ==
  LET distanceDelta == manhattanDistance(from, a) - manhattanDistance(from, b)
      directionalDelta == compareDirectionalTieBreak(from, a, b, direction)
  IN IF directionalDelta # 0 THEN directionalDelta
     ELSE IF distanceDelta # 0 THEN distanceDelta
     ELSE IF a.row # b.row THEN a.row - b.row
     ELSE a.col - b.col

\* the comparison function handed to vacancies.sort
vacancyCompare(from, a, b, direction) ==
  LET distanceDelta == manhattanDistance(from, a) - manhattanDistance(from, b)
      directionalDelta == compareDirectionalTieBreak(from, a, b, direction)
  IN IF distanceDelta # 0 THEN distanceDelta
     ELSE IF directionalDelta # 0 THEN directionalDelta
     ELSE IF a.row # b.row THEN a.row - b.row
     ELSE a.col - b.col

\* the empty cells strictly in the direction
vacanciesInDirection(cells, from, direction) ==
  LET n == Size(cells)
  IN { candidate \in { Coord(k \div n, k % n) : k \in { i \in CellIndexes(n) : cells[i \div n][i % n] = NoTile } } :
         isInDirection(from, candidate, direction) }

\* vacancies.sort(...)[0]: the element the comparison puts before all others
nearestVacancyInDirection(cells, from, direction) ==
  LET vacancies == vacanciesInDirection(cells, from, direction)
  IN IF vacancies = {} THEN NoCoord
     ELSE CHOOSE a \in vacancies :
            \A b \in vacancies \ {a} : vacancyCompare(from, a, b, direction) < 0

Sign(x) == IF x < 0 THEN 0 - 1 ELSE 1

moveTrail(from, to, direction) ==
  LET dr == to.row - from.row
      dc == to.col - from.col
      rowsFirst == [i \in 1 .. Abs(dr) + Abs(dc) |->
                      IF i <= Abs(dr) THEN Coord(from.row + Sign(dr) * i, from.col)
                      ELSE Coord(to.row, from.col + Sign(dc) * (i - Abs(dr)))]
      colsFirst == [i \in 1 .. Abs(dr) + Abs(dc) |->
                      IF i <= Abs(dc) THEN Coord(from.row, from.col + Sign(dc) * i)
                      ELSE Coord(from.row + Sign(dr) * (i - Abs(dc)), to.col)]
  IN IF direction \in {"up", "down"} THEN rowsFirst ELSE colsFirst

normalizedConfigFromFour(config) ==
  [size |-> Max(4, Min(16, config.size)),
   initialOccupancy |-> Max(65, Min(98, config.initialOccupancy)),
   minorityShare |-> Max(10, Min(20, config.minorityShare)),
   maxTurns |-> Max(10, Min(80, config.maxTurns))]

\* config: size, maxTurns integers; initialOccupancy, minorityShare in percent
normalizedConfig(config) ==
  [size |-> Max(8, Min(16, config.size)),
   initialOccupancy |-> Max(65, Min(98, config.initialOccupancy)),
   minorityShare |-> Max(10, Min(20, config.minorityShare)),
   maxTurns |-> Max(10, Min(80, config.maxTurns))]

householdCountFor(config) ==
  LET capacity == config.size * config.size
  IN Max(2, Min(capacity - 1, RoundDiv(capacity * config.initialOccupancy, 100)))

minorityCountFor(config) == RoundDiv(householdCountFor(config) * config.minorityShare, 100)

\* positions: the first householdCount entries of the shuffled coordinates, as
\* cell numbers; colors: the shuffled colour list.  Both shuffles are inputs.
createInitialStateReloc(raw, positions, colors, bh, counter) ==
  LET config == normalizedConfig(raw)
      size == config.size
      nb == FreshBoardRef(bh)
      placed == { positions[i] : i \in DOMAIN positions }
      idx(k) == CHOOSE i \in DOMAIN positions : positions[i] = k
      household(i) == [obj |-> CreatedObj(nb, size, counter + i), id |-> counter + i,
                       color |-> colors[i], unhappy |-> FALSE]
      cells0 == [r \in 0 .. size - 1 |-> [c \in 0 .. size - 1 |->
                   IF r * size + c \in placed THEN household(idx(r * size + c)) ELSE NoTile]]
      cells1 == recomputeHappiness(cells0)
  IN [state |-> [board |-> nb, turn |-> 0, gameOver |-> FALSE, gameOverReason |-> "null",
                 summary |-> summaryForBoard(cells1, countUnhappy(cells1), TRUE, FALSE, NullMove)],
      boards |-> StoreBoard(bh, nb, cells1),
      counter |-> counter + Len(positions)]

endSessionAsTurn(state) ==
  [state EXCEPT !.gameOver = TRUE, !.gameOverReason = "manual_end", !.turn = @ + 1]

endSession(state) == [state EXCEPT !.gameOver = TRUE, !.gameOverReason = "manual_end"]

withSummaryAndTurn(state, summary) == [state EXCEPT !.summary = summary, !.turn = @ + 1]

\* { ...state, summary }
withSummary(state, summary) == [state EXCEPT !.summary = summary]

terminationRelocLate(unhappyAfter, turn, config) ==
  IF unhappyAfter = 0 THEN [gameOver |-> TRUE, gameOverReason |-> "equilibrium"]
  ELSE IF turn > config.maxTurns THEN [gameOver |-> TRUE, gameOverReason |-> "max_turns"]
  ELSE [gameOver |-> FALSE, gameOverReason |-> "null"]

\* terminationReloc without the turn limit
terminationRelocUnlimited(unhappyAfter, turn, config) ==
  IF unhappyAfter = 0 THEN [gameOver |-> TRUE, gameOverReason |-> "equilibrium"]
  ELSE [gameOver |-> FALSE, gameOverReason |-> "null"]

\* gameOver / gameOverReason of an accepted move
terminationReloc(unhappyAfter, turn, config) ==
  IF unhappyAfter = 0 THEN [gameOver |-> TRUE, gameOverReason |-> "equilibrium"]
  ELSE IF turn >= config.maxTurns THEN [gameOver |-> TRUE, gameOverReason |-> "max_turns"]
  ELSE [gameOver |-> FALSE, gameOverReason |-> "null"]

selectionRejectedEmptyOnly(selectedTile) == ~isHousehold(selectedTile)

\* the selection is no household or a household that is not unhappy
selectionRejected(selectedTile) == ~isHousehold(selectedTile) \/ ~selectedTile.unhappy

relocateLeavingCopy(cells, selected, vacancy) ==
  [cells EXCEPT ![vacancy.row][vacancy.col] = cells[selected.row][selected.col]]

\* board[vacancy.row][vacancy.col] = selectedTile; board[selected.row][selected.col] = null
relocate(cells, selected, vacancy) ==
  [cells EXCEPT ![vacancy.row][vacancy.col] = cells[selected.row][selected.col],
                ![selected.row][selected.col] = NoTile]

applyTurnReloc(state, selected, direction, raw, bh) ==
  IF state.gameOver THEN [state |-> state, boards |-> bh]
  ELSE
    LET config == normalizedConfig(raw)
        board == FreshBoardRef(bh)
        cells0 == cloneBoard(bh[state.board], board)
        unhappyBefore == countUnhappy(cells0)
        selectedTile == IF isInBounds(cells0, selected.row, selected.col)
                        THEN cells0[selected.row][selected.col] ELSE NoTile
    IN IF selectionRejected(selectedTile)
       THEN [state |-> withSummary(state, summaryForBoard(cells0, unhappyBefore, FALSE, FALSE, NullMove)),
             boards |-> StoreBoard(bh, board, cells0)]
       ELSE
         LET vacancy == nearestVacancyInDirection(cells0, selected, direction)
         IN IF vacancy = NoCoord
            THEN [state |-> withSummary(state, summaryForBoard(cells0, unhappyBefore, TRUE, FALSE, NullMove)),
                  boards |-> StoreBoard(bh, board, cells0)]
            ELSE
              LET cells1 == relocate(cells0, selected, vacancy)
                  cells2 == recomputeHappiness(cells1)
                  turn == state.turn + 1
                  unhappyAfter == countUnhappy(cells2)
                  term == terminationReloc(unhappyAfter, turn, config)
                  lastMove == [present |-> TRUE, from |-> selected, to |-> vacancy,
                               direction |-> direction, trail |-> moveTrail(selected, vacancy, direction)]
              IN [state |-> [board |-> board, turn |-> turn, gameOver |-> term.gameOver,
                             gameOverReason |-> term.gameOverReason,
                             summary |-> summaryForBoard(cells2, unhappyBefore, TRUE, TRUE, lastMove)],
                  boards |-> StoreBoard(bh, board, cells2)]

(***************************************************************************)
(* Inputs of the relocation engine.                                        *)
(***************************************************************************)
NoProbe == [kind |-> "none"]

\* the occupied cells of a layout in row-major order, with their colours:
\* one outcome of the two shuffles of createInitialState
LayoutShuffle(n, empties, oranges) ==
  LET occ == CellIndexes(n) \ empties
      rank(k) == Cardinality({ q \in occ : q < k })
      positions == [i \in 1 .. Cardinality(occ) |-> CHOOSE k \in occ : rank(k) = i - 1]
  IN [positions |-> positions,
      colors |-> [i \in DOMAIN positions |-> IF positions[i] \in oranges THEN "orange" ELSE "blue"]]

Cells(row, cols) == { row * 8 + c : c \in cols }

\* 8 x 8, 38 blue, 4 orange, 22 empty; unhappy: (0,3), (2,2), (6,1), (6,2),
\* (7,5), (7,6)
LayoutSparse ==
  LayoutShuffle(8,
    Cells(0, {2, 4}) \cup Cells(5, 0 .. 7) \cup Cells(6, {0} \cup 3 .. 7) \cup Cells(7, 0 .. 4 \cup {7}),
    Cells(0, {3}) \cup Cells(2, {2}) \cup Cells(6, {2}) \cup Cells(7, {6}))

\* 8 x 8, 50 blue, 13 orange, 1 empty; unhappy: (4,0)
LayoutDense ==
  LayoutShuffle(8, Cells(2, {0}), Cells(0, 0 .. 5) \cup Cells(1, 0 .. 5) \cup Cells(4, {0}))

\* 8 x 8, 50 blue, 13 orange, 1 empty; unhappy: (2,2), which stays unhappy
\* when it moves up to (0,2) and back
LayoutShuttle ==
  LayoutShuffle(8, Cells(0, {2}), Cells(2, {2}) \cup Cells(6, 0 .. 5) \cup Cells(7, 0 .. 5))

\* households packed into the first cells, the orange ones first: nobody unhappy
LayoutPacked(households, minority) ==
  [positions |-> [i \in 1 .. households |-> i - 1],
   colors |-> [i \in 1 .. households |-> IF i <= minority THEN "orange" ELSE "blue"]]

RelocConfigs ==
  { [size |-> 5, initialOccupancy |-> 50, minorityShare |-> 10, maxTurns |-> 32],
    [size |-> 8, initialOccupancy |-> 98, minorityShare |-> 20, maxTurns |-> 5],
    [size |-> 8, initialOccupancy |-> 98, minorityShare |-> 20, maxTurns |-> 11],
    [size |-> 20, initialOccupancy |-> 100, minorityShare |-> 5, maxTurns |-> 100] }

RelocShuffles(raw) ==
  LET norm == normalizedConfig(raw)
  IN {LayoutSparse, LayoutDense, LayoutShuttle, LayoutPacked(householdCountFor(norm), minorityCountFor(norm))}

\* positions and colors are a possible result of the shuffles for this config
ShuffleFits(raw, sh) ==
  LET norm == normalizedConfig(raw)
  IN /\ Len(sh.positions) = householdCountFor(norm)
     /\ \A i \in DOMAIN sh.positions : sh.positions[i] \in CellIndexes(norm.size)
     /\ Cardinality({ sh.positions[i] : i \in DOMAIN sh.positions }) = Len(sh.positions)
     /\ Cardinality({ i \in DOMAIN sh.colors : sh.colors[i] = "orange" }) = minorityCountFor(norm)

\* the modelled shuffle results createInitialState can produce for a config
FittingShuffles(raw) == { sh \in RelocShuffles(raw) : ShuffleFits(raw, sh) }

\* out of bounds; empty, happy or unhappy depending on the layout
RelocSelections == { Coord(0 - 1, 2), Coord(0, 2), Coord(2, 2), Coord(4, 0) }

Op(name, selected, direction) == [op |-> name, selected |-> selected, direction |-> direction]

(***************************************************************************)
(* Relocation engine: state machine.                                       *)
(***************************************************************************)
InitReloc ==
  \E cfg \in RelocConfigs : \E shuf \in FittingShuffles(cfg) :
    \E made \in {createInitialStateReloc(cfg, shuf.positions, shuf.colors, EmptyHeap, 0)} :
      /\ game = made.state
      /\ boards = made.boards
      /\ tileCounter = made.counter
      /\ variant = "reloc"
      /\ rawConfig = cfg
      /\ hist = <<>>
      /\ lastOp = Op("createInitialState", NoCoord, "none")
      /\ probe = NoProbe

\* the caller replaces its state by the returned one; the boards returned
\* earlier stay reachable
Returned(result, opDone) ==
  LET h == Push(hist, Snapshot(game, boards))
  IN /\ game' = result.state
     /\ boards' = Retain(result.boards, {result.state} \cup { h[i] : i \in DOMAIN h })
     /\ hist' = h
     /\ lastOp' = opDone

DoApplyTurnReloc(selected, direction) ==
  /\ variant = "reloc"
  /\ \E applied \in {applyTurnReloc(game, selected, direction, rawConfig, boards)} :
       Returned(applied, Op("applyTurn", selected, direction))
  /\ UNCHANGED <<variant, rawConfig, tileCounter, probe>>

DoEndSessionReloc ==
  /\ variant = "reloc"
  /\ Returned([state |-> endSession(game), boards |-> boards], Op("endSession", NoCoord, "none"))
  /\ UNCHANGED <<variant, rawConfig, tileCounter, probe>>

NextReloc ==
  \/ \E sel \in RelocSelections, dir \in Directions : DoApplyTurnReloc(sel, dir)
  \/ DoEndSessionReloc

SpecReloc == InitReloc /\ [][NextReloc]_vars

(***************************************************************************)
(* Slide-and-merge engine, engine.ts lines 398-1049.                       *)
(***************************************************************************)
\* the cell value null of the slide engine
NullTile == [obj |-> NoObj, id |-> 0, kind |-> "none", color |-> "null",
             locked |-> FALSE, mergedThisTurn |-> FALSE]

defaultSummary == [moved |-> FALSE, merges |-> 0, flightCount |-> 0, integrationRows |-> 0,
                   pointsGained |-> 0, segregationWarning |-> FALSE, spawned |-> FALSE]

createEmptyBoardSlide(size) == [r \in 0 .. size - 1 |-> [c \in 0 .. size - 1 |-> NullTile]]

isHouseholdSlide(tile) == tile # NullTile /\ tile.kind = "household"

isMinority(tile) == isHouseholdSlide(tile) /\ tile.color = "orange"

isMajority(tile) == isHouseholdSlide(tile) /\ tile.color = "blue"

canSlideLocked(tile) == isHouseholdSlide(tile)

canSlide(tile) == isHouseholdSlide(tile) /\ ~tile.locked

isImmovableWall(tile) ==
  IF tile = NullTile THEN FALSE
  ELSE IF tile.kind # "household" THEN TRUE
  ELSE tile.locked

createHouseholdWithFirstId(color, nb, size, id) ==
  [obj |-> CreatedObj(nb, size, id), id |-> 1, kind |-> "household", color |-> color,
   locked |-> FALSE, mergedThisTurn |-> FALSE]

\* a new household object, its id drawn from the tile counter
createHouseholdSlide(color, nb, size, id) ==
  [obj |-> CreatedObj(nb, size, id), id |-> id, kind |-> "household", color |-> color,
   locked |-> FALSE, mergedThisTurn |-> FALSE]

createMergeResultHousehold(a, b, nb, size, id) ==
  [obj |-> CreatedObj(nb, size, id), id |-> id, kind |-> "household", color |-> a.color,
   locked |-> FALSE, mergedThisTurn |-> TRUE]

\* createMergeResult returning a household that can merge again
createMergeResultMergeable(a, b, nb, size, id) ==
  [obj |-> CreatedObj(nb, size, id), id |-> id, kind |-> "household", color |-> a.color,
   locked |-> FALSE, mergedThisTurn |-> FALSE]

\* createMergeResult with the two kinds exchanged
createMergeResultSwapped(a, b, nb, size, id) ==
  [obj |-> CreatedObj(nb, size, id), id |-> id,
   kind |-> IF a.color = b.color THEN "community_center" ELSE "gated_community",
   color |-> "null", locked |-> FALSE, mergedThisTurn |-> TRUE]

createMergeResult(a, b, nb, size, id) ==
  IF a.color # "null" /\ b.color # "null" /\ a.color = b.color
  THEN [obj |-> CreatedObj(nb, size, id), id |-> id, kind |-> "gated_community",
        color |-> "null", locked |-> FALSE, mergedThisTurn |-> TRUE]
  ELSE [obj |-> CreatedObj(nb, size, id), id |-> id, kind |-> "community_center",
        color |-> "null", locked |-> FALSE, mergedThisTurn |-> TRUE]

canMerge(mover, target) ==
  IF ~isHouseholdSlide(target) THEN FALSE
  ELSE IF target.locked \/ target.mergedThisTurn \/ mover.mergedThisTurn THEN FALSE
  ELSE TRUE

directionVector(direction) ==
  CASE direction = "up" -> Coord(0 - 1, 0)
    [] direction = "down" -> Coord(1, 0)
    [] direction = "left" -> Coord(0, 0 - 1)
    [] direction = "right" -> Coord(0, 1)
    [] OTHER -> Coord(0, 0)

\* traversalOrder with every line visited from the far end
traversalOrderNearFirst(size, direction) ==
  IF size < 2 THEN <<>>
  ELSE [i \in 1 .. size * (size - 1) |->
          LET line == (i - 1) \div (size - 1)
              step == (i - 1) % (size - 1)
          IN CASE direction = "left" -> Coord(line, size - 1 - step)
               [] direction = "right" -> Coord(line, step)
               [] direction = "up" -> Coord(size - 1 - step, line)
               [] OTHER -> Coord(step, line)]

\* the cells in the order slideAndMerge visits them: the line nearest the
\* edge the tiles slide to comes first
traversalOrder(size, direction) ==
  IF size < 2 THEN <<>>
  ELSE [i \in 1 .. size * (size - 1) |->
          LET line == (i - 1) \div (size - 1)
              step == (i - 1) % (size - 1)
          IN CASE direction = "left" -> Coord(line, 1 + step)
               [] direction = "right" -> Coord(line, size - 2 - step)
               [] direction = "up" -> Coord(1 + step, line)
               [] OTHER -> Coord(size - 2 - step, line)]

resetMergeFlags(cells) ==
  [r \in DOMAIN cells |-> [c \in DOMAIN cells |->
     IF cells[r][c] = NullTile THEN cells[r][c]
     ELSE [cells[r][c] EXCEPT !.mergedThisTurn = FALSE]]]

\* the while loop of slideAndMerge for the tile now in cell (row, col);
\* w: [cells, moved, merges, counter]
RECURSIVE slideTile(_, _, _, _, _)
slideTile(w, nb, row, col, vector) ==
  LET nextRow == row + vector.row
      nextCol == col + vector.col
      activeTile == w.cells[row][col]
      target == w.cells[nextRow][nextCol]
  IN IF ~isInBounds(w.cells, nextRow, nextCol) THEN w
     ELSE IF target = NullTile
       THEN slideTile([w EXCEPT !.cells = [w.cells EXCEPT ![nextRow][nextCol] = activeTile,
                                                         ![row][col] = NullTile],
                                !.moved = TRUE],
                      nb, nextRow, nextCol, vector)
     ELSE IF isImmovableWall(target) THEN w
     ELSE IF canMerge(activeTile, target)
       THEN [cells |-> [w.cells EXCEPT
                          ![nextRow][nextCol] =
                             createMergeResult(activeTile, target, nb, Size(w.cells), w.counter + 1),
                          ![row][col] = NullTile],
             moved |-> TRUE, merges |-> w.merges + 1, counter |-> w.counter + 1]
     ELSE w

\* the for loop of slideAndMerge from position i of the order on
RECURSIVE slideFrom(_, _, _, _, _)
slideFrom(w, nb, order, i, vector) ==
  IF i > Len(order) THEN w
  ELSE IF ~canSlide(w.cells[order[i].row][order[i].col])
    THEN slideFrom(w, nb, order, i + 1, vector)
  ELSE slideFrom(slideTile(w, nb, order[i].row, order[i].col, vector), nb, order, i + 1, vector)

\* slideAndMerge reporting whether there was a merge instead of how many
slideAndMergeFlagged(cells, nb, direction, counter) ==
  LET slid(w) == [w EXCEPT !.cells = resetMergeFlags(w.cells),
                           !.merges = IF w.merges > 0 THEN 1 ELSE 0]
  IN slid(slideFrom([cells |-> resetMergeFlags(cells), moved |-> FALSE, merges |-> 0,
                     counter |-> counter],
                    nb, traversalOrder(Size(cells), direction), 1, directionVector(direction)))

\* slides and merges the tiles of the matrix of board nb; counter is the tile
\* counter before, .counter the tile counter after
slideAndMerge(cells, nb, direction, counter) ==
  LET slid(w) == [w EXCEPT !.cells = resetMergeFlags(w.cells)]
  IN slid(slideFrom([cells |-> resetMergeFlags(cells), moved |-> FALSE, merges |-> 0,
                     counter |-> counter],
                    nb, traversalOrder(Size(cells), direction), 1, directionVector(direction)))

\* minorityCount / householdCount of the cells, as the fraction num / den
getMinorityShare(cells, unit) ==
  LET share(households) ==
        IF households = {} THEN [num |-> 0, den |-> 1]
        ELSE [num |-> Cardinality({ i \in households :
                                      cells[unit[i].row][unit[i].col].color = "orange" }),
              den |-> Cardinality(households)]
  IN share({ i \in DOMAIN unit : isHouseholdSlide(cells[unit[i].row][unit[i].col])
                                   /\ cells[unit[i].row][unit[i].col].color # "null" })

\* share < pct / 100
ShareBelow(share, pct) == share.num * 100 < pct * share.den

\* share <= pct / 100
ShareAtMost(share, pct) == share.num * 100 <= pct * share.den

\* share >= pct / 100
ShareAtLeast(share, pct) == share.num * 100 >= pct * share.den

unitsForTipping(size, config) ==
  CASE config.tippingUnit = "row" ->
         [row \in 1 .. size |-> [col \in 1 .. size |-> Coord(row - 1, col - 1)]]
    [] config.tippingUnit = "column" ->
         [col \in 1 .. size |-> [row \in 1 .. size |-> Coord(row - 1, col - 1)]]
    [] OTHER ->
         IF size < 2 THEN <<>>
         ELSE [k \in 1 .. (size - 1) * (size - 1) |->
                 LET row == (k - 1) \div (size - 1)
                     col == (k - 1) % (size - 1)
                 IN << Coord(row, col), Coord(row + 1, col), Coord(row, col + 1),
                       Coord(row + 1, col + 1) >>]

edgeCells(size) ==
  [k \in 1 .. 2 * size + 2 * Max(0, size - 2) |->
     IF k <= 2 * size
     THEN Coord(IF k % 2 = 1 THEN 0 ELSE size - 1, (k - 1) \div 2)
     ELSE Coord(1 + ((k - 2 * size - 1) \div 2), IF k % 2 = 1 THEN 0 ELSE size - 1)]

manhattan(a, b) == Abs(a.row - b.row) + Abs(a.col - b.col)

\* findFarthestEdgeCell without the test for the excluded cell
findFarthestEdgeCellOrBack(cells, minorityCells, excluded, pick) ==
  LET size == Size(cells)
      eligible(edge) == cells[edge.row][edge.col] = NullTile
      score(edge) ==
        IF minorityCells # {}
        THEN CHOOSE d \in { manhattan(edge, m) : m \in minorityCells } :
               \A m \in minorityCells : d <= manhattan(edge, m)
        ELSE Abs(2 * edge.row - (size - 1)) + Abs(2 * edge.col - (size - 1))
      picked(candidates) ==
        IF Len(candidates) = 0 THEN NoCoord
        ELSE IF pick = "lo" THEN candidates[1] ELSE candidates[Len(candidates)]
      farthest(open) ==
        LET best(edge) == \A i \in DOMAIN open : score(open[i]) <= score(edge)
        IN picked(SelectSeq(open, best))
  IN farthest(SelectSeq(edgeCells(size), eligible))

\* pick: which of the tied candidates Math.random selects, "lo" the first and
\* "hi" the last.  With no minority cell the score is the distance from the
\* centre ((size - 1) / 2, (size - 1) / 2), compared here doubled.
findFarthestEdgeCell(cells, minorityCells, excluded, pick) ==
  LET size == Size(cells)
      eligible(edge) == cells[edge.row][edge.col] = NullTile /\ edge # excluded
      score(edge) ==
        IF minorityCells # {}
        THEN CHOOSE d \in { manhattan(edge, m) : m \in minorityCells } :
               \A m \in minorityCells : d <= manhattan(edge, m)
        ELSE Abs(2 * edge.row - (size - 1)) + Abs(2 * edge.col - (size - 1))
      picked(candidates) ==
        IF Len(candidates) = 0 THEN NoCoord
        ELSE IF pick = "lo" THEN candidates[1] ELSE candidates[Len(candidates)]
      farthest(open) ==
        LET best(edge) == \A i \in DOMAIN open : score(open[i]) <= score(edge)
        IN picked(SelectSeq(open, best))
  IN farthest(SelectSeq(edgeCells(size), eligible))

\* Array.from(candidates.values()): the majority cells of the tipped units,
\* each once, in the order they were first met
majorityTargets(cells, config) ==
  LET tipped(unit) == ~ShareAtMost(getMinorityShare(cells, unit), config.tippingThreshold)
      values(met, kept) ==
        [i \in 1 .. Cardinality(kept) |->
           met[CHOOSE k \in kept : Cardinality({ j \in kept : j < k }) = i - 1].cell]
      candidates(met) ==
        values(met, { k \in DOMAIN met :
                       met[k].hit /\ \A j \in 1 .. k - 1 : ~(met[j].hit /\ met[j].cell = met[k].cell) })
      visited(units) ==
        candidates([k \in 1 .. Len(units) * (IF Len(units) = 0 THEN 0 ELSE Len(units[1])) |->
                      LET u == 1 + ((k - 1) \div Len(units[1]))
                          cell == units[u][1 + ((k - 1) % Len(units[1]))]
                      IN [cell |-> cell,
                          hit |-> tipped(units[u]) /\ isMajority(cells[cell.row][cell.col])]])
  IN visited(unitsForTipping(Size(cells), config))

Reverse(seq) == [i \in 1 .. Len(seq) |-> seq[Len(seq) + 1 - i]]

\* fleeingFor with the half rounded up
fleeingForRoundedUp(targets, config, flee) ==
  IF config.flightMode = "deterministic"
  THEN LET count == (Len(targets) + 1) \div 2
       IN IF flee = "first" THEN SubSeq(targets, 1, count)
          ELSE SubSeq([i \in 1 .. Len(targets) |-> targets[Len(targets) + 1 - i]], 1, count)
  ELSE CASE flee = "none" -> <<>>
         [] flee = "all" -> targets
         [] flee = "first" -> SubSeq(targets, 1, 1)
         [] OTHER -> SubSeq(targets, Len(targets), Len(targets))

\* the households that flee, in the order they are processed.  flee names the
\* outcome of the random draws: deterministic mode, "first": the shuffle
\* leaves the order, "last": it reverses it; probabilistic mode, "none",
\* "all", "first" or "last" of the targets pass the filter.
fleeingFor(targets, config, flee) ==
  IF config.flightMode = "deterministic"
  THEN LET count == Len(targets) \div 2
       IN IF flee = "first" THEN SubSeq(targets, 1, count)
          ELSE SubSeq(Reverse(targets), 1, count)
  ELSE CASE flee = "none" -> <<>>
         [] flee = "all" -> targets
         [] flee = "first" -> SubSeq(targets, 1, 1)
         [] OTHER -> SubSeq(targets, Len(targets), Len(targets))

\* the draws Math.random can produce under the configuration
FleePossible(config, flee) ==
  IF config.flightMode = "deterministic" THEN flee \in {"first", "last"}
  ELSE IF config.flightProbability <= 0 THEN flee = "none"
  ELSE IF config.flightProbability >= 100 THEN flee = "all"
  ELSE TRUE

\* the loop over the fleeing households from position i on; w: [cells, events]
RECURSIVE flightFrom(_, _, _, _, _)
flightFrom(w, fleeing, i, config, pick) ==
  IF i > Len(fleeing) THEN w
  ELSE
    LET departure == fleeing[i]
        tile == w.cells[departure.row][departure.col]
        minorityCells(removed) ==
          { x \in allCoordinates(Size(removed)) : isMinority(removed[x.row][x.col]) }
        relocated(removed, edgeTarget) ==
          IF config.flightBehavior = "despawn" \/ edgeTarget = NoCoord
          THEN flightFrom([cells |-> removed, events |-> w.events + 1], fleeing, i + 1, config, pick)
          ELSE flightFrom([cells |-> [removed EXCEPT ![edgeTarget.row][edgeTarget.col] = tile],
                           events |-> w.events + 1],
                          fleeing, i + 1, config, pick)
        departed(removed) ==
          relocated(removed, findFarthestEdgeCell(removed, minorityCells(removed), departure, pick))
    IN IF ~isMajority(tile) THEN flightFrom(w, fleeing, i + 1, config, pick)
       ELSE departed([w.cells EXCEPT ![departure.row][departure.col] = NullTile])

applyFlight(cells, config, flee, pick) ==
  LET flown(targets) ==
        IF Len(targets) = 0 THEN [cells |-> cells, events |-> 0]
        ELSE flightFrom([cells |-> cells, events |-> 0], fleeingFor(targets, config, flee), 1,
                        config, pick)
  IN flown(majorityTargets(cells, config))

minorityShareForRow(cells, row) ==
  getMinorityShare(cells, [col \in 1 .. Size(cells) |-> Coord(row, col - 1)])

\* integrationRows without the lower end of the band
integrationRowsBelowMax(cells, config) ==
  Cardinality({ row \in DOMAIN cells :
                  ShareAtMost(minorityShareForRow(cells, row), config.integrationBandMax) })

integrationRows(cells, config) ==
  Cardinality({ row \in DOMAIN cells :
                  /\ ShareAtLeast(minorityShareForRow(cells, row), config.integrationBandMin)
                  /\ ShareAtMost(minorityShareForRow(cells, row), config.integrationBandMax) })

isBoardSegregated(cells) ==
  LET rowHas(row, color) == \E c \in DOMAIN cells :
                              isHouseholdSlide(cells[row][c]) /\ cells[row][c].color = color
  IN IF \E row \in DOMAIN cells : rowHas(row, "blue") /\ rowHas(row, "orange") THEN FALSE
     ELSE (\E row \in DOMAIN cells : rowHas(row, "blue"))
            /\ (\E row \in DOMAIN cells : rowHas(row, "orange"))

recomputeLocksByRow(cells) ==
  [row \in DOMAIN cells |-> [col \in DOMAIN cells |->
     LET tile == cells[row][col]
         rowSameColor == Cardinality({ index \in DOMAIN cells :
                           isHouseholdSlide(cells[row][index]) /\ cells[row][index].color = tile.color })
     IN IF ~isHouseholdSlide(tile) \/ tile.color = "null" THEN tile
        ELSE [tile EXCEPT !.locked = (rowSameColor = 1)]]]

\* sets tile.locked of every household object on the board
recomputeLocks(cells) ==
  [row \in DOMAIN cells |-> [col \in DOMAIN cells |->
     LET tile == cells[row][col]
         rowSameColor == Cardinality({ index \in DOMAIN cells :
                           isHouseholdSlide(cells[row][index]) /\ cells[row][index].color = tile.color })
         colSameColor == Cardinality({ index \in DOMAIN cells :
                           isHouseholdSlide(cells[index][col]) /\ cells[index][col].color = tile.color })
     IN IF ~isHouseholdSlide(tile) \/ tile.color = "null" THEN tile
        ELSE [tile EXCEPT !.locked = (rowSameColor = 1 /\ colSameColor = 1)]]]

emptyCellsOrTaken(cells) ==
  [i \in 1 .. Size(cells) * Size(cells) |-> Coord((i - 1) \div Size(cells), (i - 1) % Size(cells))]

\* the empty cells in row-major order
emptyCells(cells) ==
  LET n == Size(cells)
      listed(empty) ==
        [i \in 1 .. Cardinality(empty) |->
           LET k == CHOOSE x \in empty : Cardinality({ y \in empty : y < x }) = i - 1
           IN Coord(k \div n, k % n)]
  IN listed({ k \in CellIndexes(n) : cells[k \div n][k % n] = NullTile })

\* clamp01(base + shift * turn), in percent
spawnOrangeShare(config, turn) ==
  Max(0, Min(100, config.spawnOrange + config.spawnRatioShiftPerTurn * turn))

\* the colours Math.random() < orangeShare can give
ColorPossible(config, turn, color) ==
  IF color = "orange" THEN spawnOrangeShare(config, turn) > 0
  ELSE spawnOrangeShare(config, turn) < 100

\* spawnOneHousehold that keeps the last empty cell free
spawnOneHouseholdWithRoom(cells, nb, pick, color, counter) ==
  LET placed(target) ==
        [cells |-> [cells EXCEPT ![target.row][target.col] =
                      createHouseholdSlide(color, nb, Size(cells), counter + 1)],
         spawned |-> TRUE, counter |-> counter + 1]
      spawnedIn(empty) ==
        IF Len(empty) <= 1 THEN [cells |-> cells, spawned |-> FALSE, counter |-> counter]
        ELSE placed(IF pick = "lo" THEN empty[1] ELSE empty[Len(empty)])
  IN spawnedIn(emptyCells(cells))

\* pick: the empty cell Math.random selects, "lo" the first and "hi" the last
spawnOneHousehold(cells, nb, pick, color, counter) ==
  LET placed(target) ==
        [cells |-> [cells EXCEPT ![target.row][target.col] =
                      createHouseholdSlide(color, nb, Size(cells), counter + 1)],
         spawned |-> TRUE, counter |-> counter + 1]
      spawnedIn(empty) ==
        IF Len(empty) = 0 THEN [cells |-> cells, spawned |-> FALSE, counter |-> counter]
        ELSE placed(IF pick = "lo" THEN empty[1] ELSE empty[Len(empty)])
  IN spawnedIn(emptyCells(cells))

isFullyLocked(cells) ==
  LET n == Size(cells)
      allLocked(households) ==
        /\ Cardinality(households) > 0
        /\ Cardinality(households) = Cardinality({ k \in households : cells[k \div n][k % n].locked })
  IN allLocked({ k \in CellIndexes(n) : isHouseholdSlide(cells[k \div n][k % n]) })

DIRECTIONS == <<"up", "down", "left", "right">>

\* the loop of hasLegalMoves from direction i on.  Every probe is a clone whose
\* tile objects nothing else refers to; a merge in a probe draws an id from
\* the tile counter.
RECURSIVE probeFrom(_, _, _)
probeFrom(cells, i, counter) ==
  IF i > Len(DIRECTIONS) THEN [moves |-> FALSE, counter |-> counter]
  ELSE LET probed(result) ==
             IF result.moved THEN [moves |-> TRUE, counter |-> result.counter]
             ELSE probeFrom(cells, i + 1, result.counter)
       IN probed(slideAndMerge(cloneBoard(cells, 0), 0, DIRECTIONS[i], counter))

hasLegalMovesFromLeft(cells, counter) == probeFrom(cells, 3, counter)

hasLegalMoves(cells, counter) == probeFrom(cells, 1, counter)

\* the loop of createInitialState from spawn i on; placements[i]: the cell
\* (numbered in row-major order) and the colour drawn for spawn i
RECURSIVE spawnInitial(_, _, _, _, _)
spawnInitial(cells, nb, placements, i, counter) ==
  IF i > Len(placements) THEN [cells |-> cells, counter |-> counter]
  ELSE LET n == Size(cells)
           at == placements[i].cell
       IN spawnInitial([cells EXCEPT ![at \div n][at % n] =
                          createHouseholdSlide(placements[i].color, nb, n, counter + 1)],
                       nb, placements, i + 1, counter + 1)

createInitialStateSlide(config, placements, bh, counter) ==
  LET initial(nb, made) ==
        [state |-> [board |-> nb, turn |-> 0, totalScore |-> 0, integrationTurnsSurvived |-> 0,
                    gameOver |-> FALSE, gameOverReason |-> "null", summary |-> defaultSummary],
         boards |-> StoreBoard(bh, nb, recomputeLocks(made.cells)),
         counter |-> made.counter]
      spawnedOn(nb) ==
        initial(nb, spawnInitial(createEmptyBoardSlide(config.size), nb, placements, 1, counter))
  IN spawnedOn(FreshBoardRef(bh))

unmovedTurnCounted(state, bh, board, moveOutcome) ==
  [state |-> [withSummary(state, [defaultSummary EXCEPT !.moved = FALSE]) EXCEPT !.turn = @ + 1],
   boards |-> StoreBoard(bh, board, moveOutcome.cells),
   counter |-> moveOutcome.counter]

\* the return of applyTurn when nothing moved: { ...state, summary }; the
\* clone `board` that was slid is not part of the returned state
unmovedTurn(state, bh, board, moveOutcome) ==
  [state |-> withSummary(state, [defaultSummary EXCEPT !.moved = FALSE]),
   boards |-> StoreBoard(bh, board, moveOutcome.cells),
   counter |-> moveOutcome.counter]

\* slideTurn with the spawn before the flight
slideTurnSpawnFirst(state, direction, config, bh, counter, draw) ==
  LET turn == state.turn + 1
      ended(board, moveOutcome, flight, spawn, cells, rowsIntegrated, fullyLocked, legal) ==
        LET pointsGained == rowsIntegrated * config.integrationPointsPerRow
            gameOver == fullyLocked \/ ~legal.moves
        IN [state |-> [board |-> board, turn |-> turn,
                       totalScore |-> state.totalScore + pointsGained,
                       integrationTurnsSurvived |->
                         state.integrationTurnsSurvived + (IF rowsIntegrated > 0 THEN 1 ELSE 0),
                       gameOver |-> gameOver,
                       gameOverReason |-> IF gameOver
                                          THEN (IF fullyLocked THEN "fully_locked" ELSE "no_legal_moves")
                                          ELSE "null",
                       summary |-> [moved |-> moveOutcome.moved, merges |-> moveOutcome.merges,
                                    flightCount |-> flight.events, integrationRows |-> rowsIntegrated,
                                    pointsGained |-> pointsGained,
                                    segregationWarning |-> isBoardSegregated(cells),
                                    spawned |-> spawn.spawned]],
            boards |-> StoreBoard(bh, board, cells),
            counter |-> legal.counter]
      locked(board, moveOutcome, flight, spawn, cells) ==
        ended(board, moveOutcome, flight, spawn, cells, integrationRows(cells, config),
              isFullyLocked(cells), hasLegalMoves(cells, spawn.counter))
      flown(board, moveOutcome, flight, spawn) ==
        locked(board, moveOutcome, flight, spawn, recomputeLocks(flight.cells))
      spawned(board, moveOutcome, spawn) ==
        flown(board, moveOutcome,
              applyFlight(recomputeLocks(spawn.cells), config, draw.flee, draw.edge), spawn)
      slid(board, moveOutcome) ==
        IF ~moveOutcome.moved
        THEN unmovedTurn(state, bh, board, moveOutcome)
        ELSE spawned(board, moveOutcome,
                     spawnOneHousehold(recomputeLocks(moveOutcome.cells), board, draw.spawn,
                                       draw.color, moveOutcome.counter))
      cloned(board) ==
        slid(board, slideAndMerge(cloneBoard(bh[state.board], board), board, direction, counter))
  IN cloned(FreshBoardRef(bh))

\* applyTurn of the slide engine after the gameOver check; draw: the outcome
\* of the random draws of the turn
slideTurn(state, direction, config, bh, counter, draw) ==
  LET turn == state.turn + 1
      ended(board, moveOutcome, flight, spawn, cells, rowsIntegrated, fullyLocked, legal) ==
        LET pointsGained == rowsIntegrated * config.integrationPointsPerRow
            gameOver == fullyLocked \/ ~legal.moves
        IN [state |-> [board |-> board, turn |-> turn,
                       totalScore |-> state.totalScore + pointsGained,
                       integrationTurnsSurvived |->
                         state.integrationTurnsSurvived + (IF rowsIntegrated > 0 THEN 1 ELSE 0),
                       gameOver |-> gameOver,
                       gameOverReason |-> IF gameOver
                                          THEN (IF fullyLocked THEN "fully_locked" ELSE "no_legal_moves")
                                          ELSE "null",
                       summary |-> [moved |-> moveOutcome.moved, merges |-> moveOutcome.merges,
                                    flightCount |-> flight.events, integrationRows |-> rowsIntegrated,
                                    pointsGained |-> pointsGained,
                                    segregationWarning |-> isBoardSegregated(cells),
                                    spawned |-> spawn.spawned]],
            boards |-> StoreBoard(bh, board, cells),
            counter |-> legal.counter]
      locked(board, moveOutcome, flight, spawn, cells) ==
        ended(board, moveOutcome, flight, spawn, cells, integrationRows(cells, config),
              isFullyLocked(cells), hasLegalMoves(cells, spawn.counter))
      spawned(board, moveOutcome, flight, spawn) ==
        locked(board, moveOutcome, flight, spawn, recomputeLocks(spawn.cells))
      flown(board, moveOutcome, flight) ==
        spawned(board, moveOutcome, flight,
                spawnOneHousehold(recomputeLocks(flight.cells), board, draw.spawn, draw.color,
                                  moveOutcome.counter))
      slid(board, moveOutcome) ==
        IF ~moveOutcome.moved
        THEN unmovedTurn(state, bh, board, moveOutcome)
        ELSE flown(board, moveOutcome,
                   applyFlight(recomputeLocks(moveOutcome.cells), config, draw.flee, draw.edge))
      cloned(board) ==
        slid(board, slideAndMerge(cloneBoard(bh[state.board], board), board, direction, counter))
  IN cloned(FreshBoardRef(bh))

applyTurnSlideUnguarded(state, direction, config, bh, counter, draw) ==
  slideTurn(state, direction, config, bh, counter, draw)

applyTurnSlide(state, direction, config, bh, counter, draw) ==
  IF state.gameOver THEN [state |-> state, boards |-> bh, counter |-> counter]
  ELSE slideTurn(state, direction, config, bh, counter, draw)

(***************************************************************************)
(* Inputs of the slide-and-merge engine.                                   *)
(***************************************************************************)
SlideConfigRow ==
  [size |-> 3, initialTiles |-> 3, spawnOrange |-> 50, spawnRatioShiftPerTurn |-> 0,
   spawnPerTurn |-> 1, earlySpawnPerTurn |-> 2, earlySpawnTurns |-> 12,
   tippingThreshold |-> 30, tippingUnit |-> "row", flightMode |-> "probabilistic",
   flightProbability |-> 45, flightBehavior |-> "edge-relocate",
   integrationBandMin |-> 30, integrationBandMax |-> 70, integrationPointsPerRow |-> 10]

SlideConfigSector ==
  [size |-> 3, initialTiles |-> 4, spawnOrange |-> 10, spawnRatioShiftPerTurn |-> 45,
   spawnPerTurn |-> 1, earlySpawnPerTurn |-> 2, earlySpawnTurns |-> 12,
   tippingThreshold |-> 30, tippingUnit |-> "sector2x2", flightMode |-> "deterministic",
   flightProbability |-> 45, flightBehavior |-> "despawn",
   integrationBandMin |-> 30, integrationBandMax |-> 70, integrationPointsPerRow |-> 10]

\* five initial tiles: a board that a single turn can leave without a legal move
SlideConfigCrowded == [SlideConfigRow EXCEPT !.initialTiles = 5]

\* the third from last asks for two households per turn, the one after it
\* fills a board of side 2 with the initial households
SlideConfigs ==
  {SlideConfigRow, SlideConfigSector, SlideConfigCrowded,
   [SlideConfigRow EXCEPT !.spawnPerTurn = 2, !.earlySpawnTurns = 0],
   [SlideConfigRow EXCEPT !.size = 2, !.initialTiles = 4],
   [SlideConfigRow EXCEPT !.size = 0]}

Placement(r, c, color) == [row |-> r, col |-> c, color |-> color]

\* outcomes of the draws of createInitialState, in spawn order
SlideLayouts ==
  { << Placement(0, 0, "blue"), Placement(0, 2, "blue"), Placement(2, 0, "orange") >>,
    << Placement(1, 0, "orange"), Placement(1, 2, "blue"), Placement(2, 2, "blue") >>,
    << Placement(0, 0, "blue"), Placement(0, 1, "orange"), Placement(1, 0, "orange"),
       Placement(1, 1, "blue") >>,
    << Placement(0, 0, "blue"), Placement(0, 1, "blue"), Placement(1, 0, "orange"),
       Placement(1, 1, "blue") >>,
    << Placement(0, 0, "orange"), Placement(0, 1, "blue"), Placement(0, 2, "orange"),
       Placement(1, 0, "orange"), Placement(1, 1, "orange") >>,
    << >> }

\* the layout in cell numbers of a board of the size
PlacementsFor(size, layout) ==
  [i \in DOMAIN layout |-> [cell |-> layout[i].row * size + layout[i].col, color |-> layout[i].color]]

\* the layout is a possible result of the draws for this config
LayoutFits(config, layout) ==
  LET capacity == IF config.size > 0 THEN config.size * config.size ELSE 0
  IN /\ Len(layout) = Min(config.initialTiles, capacity)
     /\ \A i \in DOMAIN layout : layout[i].row < config.size /\ layout[i].col < config.size
     /\ Cardinality({ <<layout[i].row, layout[i].col>> : i \in DOMAIN layout }) = Len(layout)
     /\ \A i \in DOMAIN layout : ColorPossible(config, 0, layout[i].color)

FittingLayouts(config) == { layout \in SlideLayouts : LayoutFits(config, layout) }

\* outcomes of the random draws of one turn
TurnDraws ==
  { [flee |-> "none", edge |-> "lo", spawn |-> "lo", color |-> "blue"],
    [flee |-> "none", edge |-> "hi", spawn |-> "hi", color |-> "orange"],
    [flee |-> "all", edge |-> "lo", spawn |-> "hi", color |-> "blue"],
    [flee |-> "all", edge |-> "hi", spawn |-> "lo", color |-> "orange"],
    [flee |-> "first", edge |-> "lo", spawn |-> "lo", color |-> "orange"],
    [flee |-> "last", edge |-> "hi", spawn |-> "hi", color |-> "blue"] }

(***************************************************************************)
(* Slide-and-merge engine: state machine.                                  *)
(***************************************************************************)
InitSlide ==
  \E cfg \in SlideConfigs : \E layout \in FittingLayouts(cfg) :
    \E made \in {createInitialStateSlide(cfg, PlacementsFor(cfg.size, layout), EmptyHeap, 0)} :
      /\ game = made.state
      /\ boards = made.boards
      /\ tileCounter = made.counter
      /\ variant = "slide"
      /\ rawConfig = cfg
      /\ hist = <<>>
      /\ lastOp = Op("createInitialState", NoCoord, "none")
      /\ probe = NoProbe

DoApplyTurnSlide(direction, draw) ==
  /\ variant = "slide"
  /\ FleePossible(rawConfig, draw.flee)
  /\ ColorPossible(rawConfig, game.turn + 1, draw.color)
  /\ \E applied \in {applyTurnSlide(game, direction, rawConfig, boards, tileCounter, draw)} :
       /\ applied.state.turn <= MaxSlideTurns
       /\ Returned(applied, Op("applyTurn", NoCoord, direction))
       /\ tileCounter' = applied.counter
  /\ UNCHANGED <<variant, rawConfig, probe>>

DoEndSessionSlide ==
  /\ variant = "slide"
  /\ Returned([state |-> endSession(game), boards |-> boards], Op("endSession", NoCoord, "none"))
  /\ UNCHANGED <<variant, rawConfig, tileCounter, probe>>

NextSlide ==
  \/ \E dir \in Directions, draw \in TurnDraws : DoApplyTurnSlide(dir, draw)
  \/ DoEndSessionSlide

SpecSlide == InitSlide /\ [][NextSlide]_vars

(***************************************************************************)
(* Both engines.                                                           *)
(***************************************************************************)
Init == InitReloc \/ InitSlide

Next == NextReloc \/ NextSlide

Spec == Init /\ [][Next]_vars

(***************************************************************************)
(* Debrief metrics, debrief.ts, and the indices of the relocation engine,  *)
(* computed for given boards.  A board is given by the colours of its      *)
(* cells, "none" for an empty cell.                                        *)
(***************************************************************************)
\* side of the boards the indices are computed for
ProbeSize == 3
\* the cells of such a board that may be occupied: the first MaxProbeCells in
\* row-major order
MaxProbeCells == 9

CellColors == {"none", "blue", "orange"}

\* uniquePairOffsets
uniquePairOffsets == { <<0, 1>>, <<1, 0>>, <<1, 1>>, <<1, 0 - 1>> }

\* debrief.ts: same / mixed over the pairs of a tile with its neighbours right,
\* down, down-right and down-left
adjacencyStats(colors) ==
  LET n == Size(colors)
      pairs == { <<k, offset>> \in CellIndexes(n) \X uniquePairOffsets :
                   LET row == k \div n
                       col == k % n
                       nextRow == row + offset[1]
                       nextCol == col + offset[2]
                   IN /\ colors[row][col] # "none"
                      /\ ~(nextRow < 0 \/ nextCol < 0 \/ nextRow >= n \/ nextCol >= n)
                      /\ colors[nextRow][nextCol] # "none" }
      same == { p \in pairs :
                  colors[(p[1] \div n) + p[2][1]][(p[1] % n) + p[2][2]] = colors[p[1] \div n][p[1] % n] }
  IN [same |-> Cardinality(same), mixed |-> Cardinality(pairs) - Cardinality(same)]

calculateSegregationIndex(colors) ==
  LET st == adjacencyStats(colors)
      total == st.same + st.mixed
  IN IF total = 0 THEN 0 ELSE RoundPct(st.same, total)

calculateIntegrationIndex(colors) ==
  LET st == adjacencyStats(colors)
      total == st.same + st.mixed
  IN IF total = 0 THEN 0 ELSE RoundPct(st.mixed, total)

\* the board of the relocation engine with these colours
RelocBoardOf(colors) ==
  LET n == Size(colors)
  IN [r \in DOMAIN colors |-> [c \in DOMAIN colors |->
        IF colors[r][c] = "none" THEN NoTile
        ELSE [obj |-> <<1, r * n + c + 1>>, id |-> r * n + c + 1, color |-> colors[r][c],
              unhappy |-> FALSE]]]

InitMetrics ==
  /\ variant = "metrics"
  /\ rawConfig = [size |-> ProbeSize]
  /\ game = [board |-> 0]
  /\ boards = EmptyHeap
  /\ hist = <<>>
  /\ lastOp = Op("none", NoCoord, "none")
  /\ tileCounter = 0
  /\ \E given \in [{ k \in CellIndexes(ProbeSize) : k < MaxProbeCells } -> CellColors] :
       \E colors \in { [r \in 0 .. ProbeSize - 1 |-> [c \in 0 .. ProbeSize - 1 |->
                          IF r * ProbeSize + c < MaxProbeCells THEN given[r * ProbeSize + c]
                          ELSE "none"]] } :
         probe = [kind |-> "board", colors |-> colors, module |-> "none",
                  same |-> 0, mixed |-> 0, segregationIndex |-> 0, integrationIndex |-> 0]

\* the debrief screen computes its two indices for the board
DoDebriefIndices ==
  /\ variant = "metrics" /\ probe.module = "none"
  /\ probe' = [probe EXCEPT !.module = "debrief",
                            !.same = adjacencyStats(probe.colors).same,
                            !.mixed = adjacencyStats(probe.colors).mixed,
                            !.segregationIndex = calculateSegregationIndex(probe.colors),
                            !.integrationIndex = calculateIntegrationIndex(probe.colors)]
  /\ UNCHANGED <<variant, rawConfig, game, boards, hist, lastOp, tileCounter>>

\* the relocation engine computes the two indices of a summary for the board
DoEngineIndices ==
  /\ variant = "metrics" /\ probe.module = "none"
  /\ probe' = [probe EXCEPT !.module = "engine",
                            !.same = adjacencyStatsReloc(RelocBoardOf(probe.colors)).same,
                            !.mixed = adjacencyStatsReloc(RelocBoardOf(probe.colors)).mixed,
                            !.segregationIndex = calculateSegregationIndexReloc(RelocBoardOf(probe.colors)),
                            !.integrationIndex = calculateIntegrationIndexReloc(RelocBoardOf(probe.colors))]
  /\ UNCHANGED <<variant, rawConfig, game, boards, hist, lastOp, tileCounter>>

NextMetrics == DoDebriefIndices \/ DoEngineIndices

SpecMetrics == InitMetrics /\ [][NextMetrics]_vars

(***************************************************************************)
(* Happiness classifiers, App.tsx analyzeBoard and engine.ts               *)
(* recomputeHappiness, computed for given boards.  A preference is given   *)
(* in percent: minLike = preference.minLike * 100, maxLike likewise.  The  *)
(* ratio sameColorNeighbors / occupiedNeighbors has a denominator of at    *)
(* most 8, so its comparison with a fraction of 100 is exact in doubles    *)
(* and is modelled by cross-multiplication.                                *)
(***************************************************************************)
neighborOffsets == { <<0 - 1, 0>>, <<1, 0>>, <<0, 0 - 1>>, <<0, 1>>,
                     <<0 - 1, 0 - 1>>, <<0 - 1, 1>>, <<1, 0 - 1>>, <<1, 1>> }

inBounds(row, col, size) == row >= 0 /\ col >= 0 /\ row < size /\ col < size

\* the offsets of neighborOffsets that lead from (row, col) to an occupied cell
occupiedNeighbors(colors, row, col) ==
  { offset \in neighborOffsets :
      /\ inBounds(row + offset[1], col + offset[2], Size(colors))
      /\ colors[row + offset[1]][col + offset[2]] # "none" }

sameColorNeighbors(colors, row, col) ==
  { offset \in occupiedNeighbors(colors, row, col) :
      colors[row + offset[1]][col + offset[2]] = colors[row][col] }

\* sameRatio over the eight cells around, occupied or not
sameRatioOfEight(occupied, same) == [num |-> same, den |-> 8]

\* sameRatio as a fraction: 0 when there is no occupied neighbour
sameRatio(occupied, same) ==
  IF occupied = 0 THEN [num |-> 0, den |-> 1] ELSE [num |-> same, den |-> occupied]

\* analyzeBoard with the test of occupiedNeighbors > 0 left out
analyzeBoardUnguarded(colors, preference) ==
  LET unhappyAt(ratio) ==
        \/ ratio.num * 100 < preference.minLike * ratio.den
        \/ ratio.num * 100 > preference.maxLike * ratio.den
  IN { x \in allCoordinates(Size(colors)) :
         /\ colors[x.row][x.col] # "none"
         /\ unhappyAt(sameRatio(Cardinality(occupiedNeighbors(colors, x.row, x.col)),
                                Cardinality(sameColorNeighbors(colors, x.row, x.col)))) }

\* analyzeBoard: unhappyKeys
analyzeBoard(colors, preference) ==
  LET unhappyAt(occupied, ratio) ==
        /\ occupied > 0
        /\ (ratio.num * 100 < preference.minLike * ratio.den
              \/ ratio.num * 100 > preference.maxLike * ratio.den)
  IN { x \in allCoordinates(Size(colors)) :
         /\ colors[x.row][x.col] # "none"
         /\ unhappyAt(Cardinality(occupiedNeighbors(colors, x.row, x.col)),
                      sameRatio(Cardinality(occupiedNeighbors(colors, x.row, x.col)),
                                Cardinality(sameColorNeighbors(colors, x.row, x.col)))) }

\* preferenceForRound: the tolerance of scenes 0 and 1, the default bias of
\* scene 2, the default range of scene 3 and its narrowest range at the top
Preferences == { [minLike |-> 26, maxLike |-> 100], [minLike |-> 33, maxLike |-> 100],
                 [minLike |-> 10, maxLike |-> 80], [minLike |-> 60, maxLike |-> 65] }

NoPreference == [minLike |-> 0, maxLike |-> 0]

InitHappiness ==
  /\ variant = "happiness"
  /\ rawConfig = [size |-> ProbeSize]
  /\ game = [board |-> 0]
  /\ boards = EmptyHeap
  /\ hist = <<>>
  /\ lastOp = Op("none", NoCoord, "none")
  /\ tileCounter = 0
  /\ \E given \in [{ k \in CellIndexes(ProbeSize) : k < MaxProbeCells } -> CellColors] :
       \E colors \in { [r \in 0 .. ProbeSize - 1 |-> [c \in 0 .. ProbeSize - 1 |->
                          IF r * ProbeSize + c < MaxProbeCells THEN given[r * ProbeSize + c]
                          ELSE "none"]] } :
         probe = [kind |-> "board", colors |-> colors, module |-> "none",
                  preference |-> NoPreference, unhappyKeys |-> {}, unhappyCount |-> 0]

\* the App classifies the households of the board under a preference rule
DoAnalyzeBoard(preference) ==
  /\ variant = "happiness" /\ probe.module = "none"
  /\ probe' = [probe EXCEPT !.module = "app",
                            !.preference = preference,
                            !.unhappyKeys = analyzeBoard(probe.colors, preference),
                            !.unhappyCount = Cardinality(analyzeBoard(probe.colors, preference))]
  /\ UNCHANGED <<variant, rawConfig, game, boards, hist, lastOp, tileCounter>>

\* the relocation engine sets the unhappy flags of the board and counts them
DoRecomputeHappiness ==
  LET flagged(cells) ==
        [probe EXCEPT !.module = "engine",
                      !.unhappyKeys = { x \in allCoordinates(Size(cells)) :
                                          isHousehold(cells[x.row][x.col])
                                            /\ cells[x.row][x.col].unhappy },
                      !.unhappyCount = countUnhappy(cells)]
  IN /\ variant = "happiness" /\ probe.module = "none"
     /\ probe' = flagged(recomputeHappiness(RelocBoardOf(probe.colors)))
     /\ UNCHANGED <<variant, rawConfig, game, boards, hist, lastOp, tileCounter>>

NextHappiness ==
  \/ \E preference \in Preferences : DoAnalyzeBoard(preference)
  \/ DoRecomputeHappiness

SpecHappiness == InitHappiness /\ [][NextHappiness]_vars

(***************************************************************************)
(* debrief.ts generateEquilibriumMap, computed for given counts.           *)
(***************************************************************************)
\* largest side of a map
MaxMapSize == 3
\* largest number of households of one colour asked for
MaxMapCount == 10

\* generateEquilibriumMap filling orange from the first free position
generateEquilibriumMapPacked(size, blue, orange) ==
  LET flat == [k \in CellIndexes(size) |->
                 IF k < blue THEN "blue" ELSE IF k < blue + orange THEN "orange" ELSE "none"]
  IN [r \in 0 .. size - 1 |-> [c \in 0 .. size - 1 |-> flat[r * size + c]]]

\* the map as the array of its cells at positions[0], positions[1], ...; the
\* first loop runs up from position 0, the second down from the last position
\* and passes over the cells that are not null
generateEquilibriumMap(size, blue, orange) ==
  LET RECURSIVE blueLoop(_, _, _), orangeLoop(_, _, _)
      blueLoop(flat, i, blueRemaining) ==
        IF i < size * size /\ blueRemaining > 0
        THEN blueLoop([flat EXCEPT ![i] = "blue"], i + 1, blueRemaining - 1)
        ELSE flat
      orangeLoop(flat, i, orangeRemaining) ==
        IF i >= 0 /\ orangeRemaining > 0
        THEN IF flat[i] # "none" THEN orangeLoop(flat, i - 1, orangeRemaining)
             ELSE orangeLoop([flat EXCEPT ![i] = "orange"], i - 1, orangeRemaining - 1)
        ELSE flat
      asMap(flat) == [r \in 0 .. size - 1 |-> [c \in 0 .. size - 1 |-> flat[r * size + c]]]
  IN asMap(orangeLoop(blueLoop([k \in CellIndexes(size) |-> "none"], 0, blue),
                      size * size - 1, orange))

InitEquilibrium ==
  /\ variant = "equilibrium"
  /\ rawConfig = [size |-> MaxMapSize]
  /\ game = [board |-> 0]
  /\ boards = EmptyHeap
  /\ hist = <<>>
  /\ lastOp = Op("none", NoCoord, "none")
  /\ tileCounter = 0
  /\ \E size \in 1 .. MaxMapSize, blue \in 0 .. MaxMapCount, orange \in 0 .. MaxMapCount :
       probe = [kind |-> "counts", size |-> size, blue |-> blue, orange |-> orange,
                module |-> "none", map |-> <<>>]

\* the debrief screen draws the equilibrium map for the counts
DoGenerateEquilibriumMap ==
  /\ variant = "equilibrium" /\ probe.module = "none"
  /\ probe' = [probe EXCEPT !.module = "debrief",
                            !.map = generateEquilibriumMap(probe.size, probe.blue, probe.orange)]
  /\ UNCHANGED <<variant, rawConfig, game, boards, hist, lastOp, tileCounter>>

SpecEquilibrium == InitEquilibrium /\ [][DoGenerateEquilibriumMap]_vars

(***************************************************************************)
(* slideAndMerge applied to given boards.  A board is given by what its    *)
(* cells hold; the tile in cell k (row-major) has id k + 1.                *)
(***************************************************************************)
\* side of the boards that are slid
SlideBoardSize == 3
\* the cells of such a board that may hold a tile: the first SlideBoardCells
\* in row-major order
SlideBoardCells == 6

\* what a cell may hold: nothing, a free household of either colour, a locked
\* household, an institution
CellContents == {"null", "blue", "orange", "locked_blue", "gated_community"}

TileOf(content, nb, size, k) ==
  CASE content = "null" -> NullTile
    [] content = "gated_community" ->
         [obj |-> <<nb, k + 1>>, id |-> k + 1, kind |-> "gated_community", color |-> "null",
          locked |-> FALSE, mergedThisTurn |-> FALSE]
    [] OTHER ->
         [obj |-> <<nb, k + 1>>, id |-> k + 1, kind |-> "household",
          color |-> IF content = "orange" THEN "orange" ELSE "blue",
          locked |-> content = "locked_blue", mergedThisTurn |-> FALSE]

InitSlideBoards ==
  /\ variant = "slideBoards"
  /\ rawConfig = [size |-> SlideBoardSize]
  /\ game = [board |-> 0]
  /\ boards = EmptyHeap
  /\ hist = <<>>
  /\ lastOp = Op("none", NoCoord, "none")
  /\ tileCounter = SlideBoardSize * SlideBoardSize
  /\ \E given \in [{ k \in CellIndexes(SlideBoardSize) : k < SlideBoardCells } -> CellContents] :
       \E cells \in { [r \in 0 .. SlideBoardSize - 1 |-> [c \in 0 .. SlideBoardSize - 1 |->
                         IF r * SlideBoardSize + c < SlideBoardCells
                         THEN TileOf(given[r * SlideBoardSize + c], 1, SlideBoardSize,
                                     r * SlideBoardSize + c)
                         ELSE NullTile]] } :
         probe = [kind |-> "slide", before |-> cells, direction |-> "none", after |-> cells,
                  moved |-> FALSE, merges |-> 0]

\* slideAndMerge(board, direction)
DoSlideAndMerge(direction) ==
  /\ variant = "slideBoards" /\ probe.direction = "none"
  /\ \E result \in {slideAndMerge(probe.before, 1, direction, tileCounter)} :
       /\ probe' = [probe EXCEPT !.direction = direction, !.after = result.cells,
                                 !.moved = result.moved, !.merges = result.merges]
       /\ tileCounter' = result.counter
  /\ UNCHANGED <<variant, rawConfig, game, boards, hist, lastOp>>

NextSlideBoards == \E direction \in Directions : DoSlideAndMerge(direction)

SpecSlideBoards == InitSlideBoards /\ [][NextSlideBoards]_vars

(***************************************************************************)
(* slideAndMerge on given boards, one sliding tile at a time: the board    *)
(* between two iterations of the for loop that pass the canSlide test.     *)
(***************************************************************************)
\* side of the boards that are slid tile by tile
StepBoardSize == 4
\* the cells of such a board that may hold a tile: the first StepBoardCells
\* in row-major order
StepBoardCells == 5

InitSlideSteps ==
  /\ variant = "slideSteps"
  /\ rawConfig = [size |-> StepBoardSize]
  /\ game = [board |-> 0]
  /\ boards = EmptyHeap
  /\ hist = <<>>
  /\ lastOp = Op("none", NoCoord, "none")
  /\ tileCounter = StepBoardSize * StepBoardSize
  /\ \E given \in [{ k \in CellIndexes(StepBoardSize) : k < StepBoardCells } -> CellContents] :
       \E cells \in { [r \in 0 .. StepBoardSize - 1 |-> [c \in 0 .. StepBoardSize - 1 |->
                         IF r * StepBoardSize + c < StepBoardCells
                         THEN TileOf(given[r * StepBoardSize + c], 1, StepBoardSize,
                                     r * StepBoardSize + c)
                         ELSE NullTile]] } :
         probe = [kind |-> "steps", before |-> cells, direction |-> "none", phase |-> "given",
                  w |-> [cells |-> cells, moved |-> FALSE, merges |-> 0, counter |-> tileCounter],
                  i |-> 1, at |-> NoCoord, taken |-> <<>>]

\* the positions of the order from i on whose tile passes the canSlide test
slidingFrom(cells, order, i) ==
  { j \in i .. Len(order) : canSlide(cells[order[j].row][order[j].col]) }

\* slideAndMerge up to its for loop
BeginSlide(direction) ==
  /\ variant = "slideSteps" /\ probe.phase = "given"
  /\ probe' = [probe EXCEPT !.direction = direction, !.phase = "sliding",
                            !.w = [cells |-> resetMergeFlags(probe.before), moved |-> FALSE,
                                   merges |-> 0, counter |-> tileCounter],
                            !.i = 1]
  /\ UNCHANGED <<variant, rawConfig, game, boards, hist, lastOp, tileCounter>>

\* the iterations of the for loop up to and including the next one whose
\* tile passes the canSlide test
SlideNextTile ==
  LET order == traversalOrder(Size(probe.before), probe.direction)
      taking(j) ==
        [probe EXCEPT !.w = slideTile(probe.w, 1, order[j].row, order[j].col,
                                      directionVector(probe.direction)),
                      !.i = j + 1,
                      !.at = order[j],
                      !.taken = Append(probe.taken,
                                       probe.w.cells[order[j].row][order[j].col].id)]
  IN /\ variant = "slideSteps" /\ probe.phase = "sliding"
     /\ slidingFrom(probe.w.cells, order, probe.i) # {}
     /\ probe' = taking(CHOOSE j \in slidingFrom(probe.w.cells, order, probe.i) :
                           \A k \in slidingFrom(probe.w.cells, order, probe.i) : j <= k)
     /\ tileCounter' = probe'.w.counter
     /\ UNCHANGED <<variant, rawConfig, game, boards, hist, lastOp>>

\* the rest of the for loop, no tile of which passes the canSlide test, and
\* the end of slideAndMerge
EndSlide ==
  /\ variant = "slideSteps" /\ probe.phase = "sliding"
  /\ slidingFrom(probe.w.cells, traversalOrder(Size(probe.before), probe.direction), probe.i) = {}
  /\ probe' = [probe EXCEPT !.phase = "done",
                            !.w = [probe.w EXCEPT !.cells = resetMergeFlags(probe.w.cells)],
                            !.i = Len(traversalOrder(Size(probe.before), probe.direction)) + 1]
  /\ UNCHANGED <<variant, rawConfig, game, boards, hist, lastOp, tileCounter>>

NextSlideSteps ==
  \/ \E direction \in Directions : BeginSlide(direction)
  \/ SlideNextTile
  \/ EndSlide

SpecSlideSteps == InitSlideSteps /\ [][NextSlideSteps]_vars

(***************************************************************************)
(* applyFlight applied to given boards of households under given          *)
(* configurations, and the choice of the border cell for one departure.    *)
(***************************************************************************)
\* side of the boards flight is applied to
FlightBoardSize == 3
\* the cells of such a board that may hold a household: the first
\* FlightBoardCells in row-major order
FlightBoardCells == 8

\* a threshold of one half, which a unit can meet exactly, and the threshold
\* of the default configuration; every tipping unit, both flight modes and
\* both flight behaviours
FlightConfigs ==
  { [SlideConfigRow EXCEPT !.tippingThreshold = 50, !.flightMode = "deterministic"],
    [SlideConfigRow EXCEPT !.flightMode = "deterministic"],
    [SlideConfigSector EXCEPT !.tippingThreshold = 50],
    [SlideConfigRow EXCEPT !.tippingUnit = "column"],
    [SlideConfigSector EXCEPT !.flightMode = "probabilistic",
                              !.flightBehavior = "edge-relocate"] }

InitFlight ==
  /\ variant = "flight"
  /\ rawConfig \in FlightConfigs
  /\ game = [board |-> 0]
  /\ boards = EmptyHeap
  /\ hist = <<>>
  /\ lastOp = Op("none", NoCoord, "none")
  /\ tileCounter = FlightBoardSize * FlightBoardSize
  /\ \E given \in [{ k \in CellIndexes(FlightBoardSize) : k < FlightBoardCells }
                     -> {"null", "blue", "orange"}] :
       \E cells \in { [r \in 0 .. FlightBoardSize - 1 |-> [c \in 0 .. FlightBoardSize - 1 |->
                         IF r * FlightBoardSize + c < FlightBoardCells
                         THEN TileOf(given[r * FlightBoardSize + c], 1, FlightBoardSize,
                                     r * FlightBoardSize + c)
                         ELSE NullTile]] } :
         probe = [kind |-> "flight", before |-> cells, module |-> "none", flee |-> "none",
                  targets |-> <<>>, after |-> cells, events |-> 0,
                  departure |-> NoCoord, edgeTarget |-> NoCoord]

\* applyFlight(board, config), its random draws having the outcomes flee and
\* pick
DoApplyFlight(flee, pick) ==
  /\ variant = "flight" /\ probe.module = "none"
  /\ FleePossible(rawConfig, flee)
  /\ \E result \in {applyFlight(probe.before, rawConfig, flee, pick)} :
       probe' = [probe EXCEPT !.module = "applyFlight", !.flee = flee,
                              !.targets = majorityTargets(probe.before, rawConfig),
                              !.after = result.cells, !.events = result.events]
  /\ UNCHANGED <<variant, rawConfig, game, boards, hist, lastOp, tileCounter>>

\* the body of the loop of applyFlight for a departure from the board, up to
\* the choice of the border cell
DoFindFarthestEdgeCell(departure, pick) ==
  LET sought(removed) ==
        findFarthestEdgeCell(removed,
                             { x \in allCoordinates(Size(removed)) :
                                 isMinority(removed[x.row][x.col]) },
                             departure, pick)
      vacated == [probe.before EXCEPT ![departure.row][departure.col] = NullTile]
  IN /\ variant = "flight" /\ probe.module = "none"
     /\ rawConfig.flightBehavior = "edge-relocate"
     /\ isMajority(probe.before[departure.row][departure.col])
     /\ probe' = [probe EXCEPT !.module = "findFarthestEdgeCell", !.departure = departure,
                               !.after = vacated, !.events = 1,
                               !.edgeTarget = sought(vacated)]
     /\ UNCHANGED <<variant, rawConfig, game, boards, hist, lastOp, tileCounter>>

NextFlight ==
  \/ \E flee \in {"none", "all", "first", "last"}, pick \in {"lo", "hi"} :
       DoApplyFlight(flee, pick)
  \/ \E departure \in allCoordinates(FlightBoardSize), pick \in {"lo", "hi"} :
       DoFindFarthestEdgeCell(departure, pick)

SpecFlight == InitFlight /\ [][NextFlight]_vars

(***************************************************************************)
(* Relocation engine: properties.                                          *)
(***************************************************************************)
\* the selection names no cell of the board, an empty cell, or a household
\* that is not unhappy
InvalidSelection(cells, sel) ==
  IF sel.row < 0 \/ sel.col < 0 \/ sel.row >= Size(cells) \/ sel.col >= Size(cells) THEN TRUE
  ELSE cells[sel.row][sel.col].color = "none" \/ ~cells[sel.row][sel.col].unhappy

\* the step is a call of applyTurn of the relocation engine
RelocTurnStep == variant = "reloc" /\ lastOp'.op = "applyTurn"

\* board, turn and termination fields of the returned state are those of the input
SameBoardTurnTermination ==
  /\ boards'[game'.board] = boards[game.board]
  /\ game'.turn = game.turn
  /\ game'.gameOver = game.gameOver
  /\ game'.gameOverReason = game.gameOverReason

\* C3: relocation variant: applyTurn with a selection that is out of bounds, an
\* empty cell or a household that is not unhappy returns a state with the
\* board, turn, gameOver and gameOverReason of the input, and (the game being
\* active) a summary with selectedValid = false and moved = false.
RejectsInvalidSelection ==
  [][ (RelocTurnStep /\ InvalidSelection(boards[game.board], lastOp'.selected))
        => /\ SameBoardTurnTermination
           /\ ~game.gameOver => (~game'.summary.selectedValid /\ ~game'.summary.moved) ]_vars

\* an active game, some moves in, has just rejected the selection of a
\* household that is not unhappy
RejectedSelectionSeen ==
  /\ variant = "reloc" /\ lastOp.op = "applyTurn" /\ ~game.gameOver
  /\ game.turn > 0
  /\ InvalidSelection(boards[game.board], lastOp.selected)
  /\ lastOp.selected.row >= 0
  /\ boards[game.board][lastOp.selected.row][lastOp.selected.col].color # "none"
  /\ ~game.summary.selectedValid

\* cell x lies strictly in the direction from the cell
StrictlyIn(from, x, direction) ==
  \/ direction = "up" /\ x.row < from.row
  \/ direction = "down" /\ x.row > from.row
  \/ direction = "left" /\ x.col < from.col
  \/ direction = "right" /\ x.col > from.col

\* the empty cells strictly in the direction from the cell
EmptyStrictlyIn(cells, from, direction) ==
  { x \in allCoordinates(Size(cells)) :
      cells[x.row][x.col].color = "none" /\ StrictlyIn(from, x, direction) }

\* C5: relocation variant: when the selected household is unhappy and no empty
\* cell lies strictly in the chosen direction, applyTurn on an active game
\* leaves board, turn and termination fields unchanged and reports
\* selectedValid = true, moved = false and lastMove = null.
NoVacancyIsNoMove ==
  [][ (/\ RelocTurnStep /\ ~game.gameOver
       /\ ~InvalidSelection(boards[game.board], lastOp'.selected)
       /\ EmptyStrictlyIn(boards[game.board], lastOp'.selected, lastOp'.direction) = {})
        => /\ SameBoardTurnTermination
           /\ game'.summary.selectedValid
           /\ ~game'.summary.moved
           /\ game'.summary.lastMove = NullMove ]_vars

\* an unhappy household was selected towards a side without empty cells
NoMoveSeen ==
  /\ variant = "reloc" /\ lastOp.op = "applyTurn" /\ ~game.gameOver
  /\ ~InvalidSelection(boards[game.board], lastOp.selected)
  /\ EmptyStrictlyIn(boards[game.board], lastOp.selected, lastOp.direction) = {}
  /\ game.summary.selectedValid /\ ~game.summary.moved

\* a comes before b in the order the destination is chosen by: Manhattan
\* distance from the source, then towards the direction, then the distance
\* from the source along the other axis
RanksBefore(from, a, b, direction) ==
  LET da == Abs(a.row - from.row) + Abs(a.col - from.col)
      db == Abs(b.row - from.row) + Abs(b.col - from.col)
      main(x) == CASE direction = "up" -> x.row
                   [] direction = "down" -> 0 - x.row
                   [] direction = "left" -> x.col
                   [] OTHER -> 0 - x.col
      side(x) == IF direction \in {"up", "down"} THEN Abs(x.col - from.col)
                 ELSE Abs(x.row - from.row)
  IN \/ da < db
     \/ da = db /\ main(a) < main(b)
     \/ da = db /\ main(a) = main(b) /\ side(a) < side(b)

\* C6: relocation variant: the destination of an accepted move is an empty
\* cell strictly in the chosen direction that no other such cell precedes in
\* the order (Manhattan distance, then the direction's tie-break); from (2,2)
\* moving up with the empty cells (0,2) and (0,4) above, (0,2) is chosen.
DestinationIsNearestVacancy ==
  [][ (RelocTurnStep /\ game'.turn = game.turn + 1)
        => LET from == lastOp'.selected
               dir == lastOp'.direction
               to == game'.summary.lastMove.to
               empties == EmptyStrictlyIn(boards[game.board], from, dir)
           IN /\ game'.summary.lastMove.from = from
              /\ to \in empties
              /\ \A e \in empties \ {to} : ~RanksBefore(from, e, to, dir)
              /\ boards'[game'.board][to.row][to.col].id = boards[game.board][from.row][from.col].id
              /\ boards'[game'.board][from.row][from.col].color = "none"
              /\ (from = Coord(2, 2) /\ dir = "up" /\ empties = {Coord(0, 2), Coord(0, 4)})
                   => to = Coord(0, 2) ]_vars

\* the household of (2,2) has moved up with (0,2) and (0,4) the empty cells above
MovedUpFromTwoTwo ==
  /\ variant = "reloc" /\ lastOp = Op("applyTurn", Coord(2, 2), "up")
  /\ game.turn = 1
  /\ game.summary.lastMove.to = Coord(0, 2)
  /\ boards[game.board][0][4].color = "none"
  /\ \A r \in 0 .. 1, c \in DOMAIN boards[game.board] :
       boards[game.board][r][c].color = "none" => <<r, c>> \in {<<0, 4>>}

\* C7: relocation variant: no state whose board has an unhappy household
\* carries the reason equilibrium, and no active state has zero unhappy
\* households.
EquilibriumExactlyAtZeroUnhappy ==
  variant = "reloc" =>
    /\ game.gameOverReason = "equilibrium" => countUnhappy(boards[game.board]) = 0
    /\ ~game.gameOver => countUnhappy(boards[game.board]) > 0

\* the turn limit in force: maxTurns clamped to 10 .. 80
TurnLimit == IF rawConfig.maxTurns < 10 THEN 10
             ELSE IF rawConfig.maxTurns > 80 THEN 80 ELSE rawConfig.maxTurns

\* C8 as stated: the move that makes turn equal to the configured maxTurns ends
\* the game with reason max_turns when unhappy households remain.
TurnLimitAtConfiguredMaxTurns ==
  (/\ variant = "reloc" /\ lastOp.op = "applyTurn" /\ game.summary.moved
   /\ game.turn = rawConfig.maxTurns /\ game.summary.unhappyAfter > 0)
    => game.gameOver /\ game.gameOverReason = "max_turns"

\* C8: relocation variant: the accepted move that makes turn equal to maxTurns
\* clamped to 10 .. 80 ends the game, with reason max_turns when unhappy
\* households remain; before that turn a game with unhappy households stays
\* active, and only accepted moves advance the turn.
TurnLimitAtClampedMaxTurns ==
  [][ RelocTurnStep =>
        /\ game'.turn = game.turn + (IF game'.summary.moved /\ ~game.gameOver THEN 1 ELSE 0)
        /\ (game'.turn = game.turn + 1 /\ game'.summary.unhappyAfter > 0)
             => IF game'.turn >= TurnLimit
                THEN game'.gameOver /\ game'.gameOverReason = "max_turns"
                ELSE ~game'.gameOver ]_vars

\* a game configured with maxTurns = 5 has ended at turn 10 by the turn limit
TurnLimitReached ==
  /\ variant = "reloc" /\ lastOp.op = "applyTurn"
  /\ rawConfig.maxTurns = 5 /\ game.turn = 10
  /\ game.gameOver /\ game.gameOverReason = "max_turns"
  /\ game.summary.unhappyAfter > 0

(***************************************************************************)
(* Properties of both engines.                                             *)
(***************************************************************************)
\* C1: in both variants applyTurn on a state with gameOver = true returns that
\* state: board, turn, score fields, gameOverReason and summary are those of
\* the input, whatever the action.
FinishedGameIgnoresTurns ==
  [][ (lastOp'.op = "applyTurn" /\ game.gameOver)
        => game' = game /\ boards'[game'.board] = boards[game.board] ]_vars

\* applyTurn has been called on a slide game that was ended by endSession
TurnAfterManualEnd ==
  /\ variant = "slide" /\ lastOp.op = "applyTurn"
  /\ game.gameOver /\ game.gameOverReason = "manual_end"
  /\ game.turn > 0

\* C2: the board and the tiles of every state returned earlier are as they
\* were when it was returned.
HistoryUntouched == \A i \in DOMAIN hist : boards[hist[i].board] = hist[i].cells

\* a slide turn with a merge has produced a new board while the board of the
\* state before is still kept
MergedWithHistory ==
  /\ variant = "slide" /\ lastOp.op = "applyTurn"
  /\ game.summary.moved /\ game.summary.merges > 0
  /\ Len(hist) > 0 /\ hist[Len(hist)].board # game.board

\* nothing moves in the direction: no unlocked household has, next to it in
\* the direction, an empty cell or an unlocked household
NothingMoves(cells, direction) ==
  LET dr == CASE direction = "up" -> 0 - 1 [] direction = "down" -> 1 [] OTHER -> 0
      dc == CASE direction = "left" -> 0 - 1 [] direction = "right" -> 1 [] OTHER -> 0
      free(t) == t.kind = "none" \/ (t.kind = "household" /\ ~t.locked)
  IN \A r \in DOMAIN cells, c \in DOMAIN cells :
       (cells[r][c].kind = "household" /\ ~cells[r][c].locked
          /\ r + dr \in DOMAIN cells /\ c + dc \in DOMAIN cells)
         => ~free(cells[r + dr][c + dc])

\* the last call was an applyTurn that returned the board of its input, and
\* its action is illegal on that board
IllegalActionApplied ==
  /\ lastOp.op = "applyTurn"
  /\ Len(hist) > 0 /\ hist[Len(hist)].board = game.board
  /\ IF variant = "reloc" THEN InvalidSelection(boards[game.board], lastOp.selected)
     ELSE NothingMoves(boards[game.board], lastOp.direction)

\* C4: a rejected action is idempotent: when the state is the result of an
\* illegal action (relocation: invalid selection; slide: a direction in which
\* nothing moves), applying the same action again returns a state equal in
\* every field.
RejectedActionIdempotent ==
  [][ (IllegalActionApplied /\ lastOp' = lastOp)
        => game' = game /\ boards'[game'.board] = boards[game.board] ]_vars

\* an active slide game, some turns in, has just been given a direction in
\* which nothing moves
NoOpSlideSeen ==
  /\ variant = "slide" /\ ~game.gameOver /\ game.turn > 0
  /\ IllegalActionApplied
  /\ game.summary = defaultSummary

OccupiedPair(colors, diagonal) ==
  \E r1 \in DOMAIN colors, c1 \in DOMAIN colors, r2 \in DOMAIN colors, c2 \in DOMAIN colors :
    /\ colors[r1][c1] # "none" /\ colors[r2][c2] # "none"
    /\ <<r1, c1>> # <<r2, c2>>
    /\ Abs(r1 - r2) <= 1 /\ Abs(c1 - c2) <= 1
    /\ diagonal \/ Abs(r1 - r2) + Abs(c1 - c2) = 1

\* C10: for a board with an occupied adjacent pair the segregation index and
\* the integration index add up to 100; with no such pair both are 0.
IndicesAddUpTo100 ==
  probe.module \in {"debrief", "engine"} =>
    IF OccupiedPair(probe.colors, probe.module = "debrief")
    THEN probe.segregationIndex + probe.integrationIndex = 100
    ELSE probe.segregationIndex = 0 /\ probe.integrationIndex = 0

\* the unordered pairs of occupied cells that touch, diagonally included
TouchingPairs(colors) ==
  { pair \in SUBSET allCoordinates(Size(colors)) :
      /\ Cardinality(pair) = 2
      /\ \A x \in pair : colors[x.row][x.col] # "none"
      /\ \A x \in pair, y \in pair : Abs(x.row - y.row) <= 1 /\ Abs(x.col - y.col) <= 1 }

SameColorPairs(colors) ==
  { pair \in TouchingPairs(colors) :
      \A x \in pair, y \in pair : colors[x.row][x.col] = colors[y.row][y.col] }

\* C11: same + mixed is the number of unordered pairs of occupied cells
\* adjacent in the 8-neighbourhood, each counted once, and the segregation
\* index is round(100 * same / (same + mixed)), 0 when there is no pair.
SegregationCountsEveryTouchingPairOnce ==
  probe.module \in {"debrief", "engine"} =>
    /\ probe.same = Cardinality(SameColorPairs(probe.colors))
    /\ probe.same + probe.mixed = Cardinality(TouchingPairs(probe.colors))
    /\ probe.segregationIndex =
         IF probe.same + probe.mixed = 0 THEN 0
         ELSE RoundDiv(100 * probe.same, probe.same + probe.mixed)

(***************************************************************************)
(* Properties of the tiles of a game.                                      *)
(***************************************************************************)
InGame == variant \in {"reloc", "slide"}

\* the cells of a matrix that hold a tile
Occupied(cells) == { x \in allCoordinates(Size(cells)) : cells[x.row][x.col].obj # NoObj }

IdsOn(cells) == { cells[x.row][x.col].id : x \in Occupied(cells) }

\* as many ids as tiles
UniqueIds(cells) == Cardinality(IdsOn(cells)) = Cardinality(Occupied(cells))

\* what a tile is, apart from where it is and the flags the engines recompute
Identity(tile) ==
  [id |-> tile.id, color |-> tile.color,
   kind |-> IF "kind" \in DOMAIN tile THEN tile.kind ELSE "household"]

\* the tiles of `after` are tiles of `before` or were created with an id above
\* the tile counter `counter`
KeptOrCreated(before, after, counter) ==
  { t \in { Identity(after[x.row][x.col]) : x \in Occupied(after) } : t.id <= counter }
    \subseteq { Identity(before[y.row][y.col]) : y \in Occupied(before) }

\* an applyTurn: the tiles that stay or move keep their ids.  The relocation
\* engine loses no tile and its moved tile is the selected one; the slide
\* engine loses two tiles per merge and at most one per flight event.
MovedTilesKeepIds ==
  (InGame /\ lastOp'.op = "applyTurn") =>
    LET before == boards[game.board]
        after == boards'[game'.board]
        lost == Cardinality(IdsOn(before) \ IdsOn(after))
    IN /\ KeptOrCreated(before, after, tileCounter)
       /\ variant = "reloc" =>
            /\ lost = 0
            /\ game'.turn # game.turn =>
                 after[game'.summary.lastMove.to.row][game'.summary.lastMove.to.col].id
                   = before[lastOp'.selected.row][lastOp'.selected.col].id
       /\ variant = "slide" =>
            IF game'.turn = game.turn THEN lost = 0
            ELSE /\ lost >= 2 * game'.summary.merges
                 /\ lost <= 2 * game'.summary.merges + game'.summary.flightCount

\* C12: in every state reached through createInitialState, applyTurn and
\* endSession no two tiles of the board share an id, and a tile that is only
\* moved keeps its id.
TilesKeepUniqueIds ==
  /\ [](InGame => UniqueIds(boards[game.board]))
  /\ [][MovedTilesKeepIds]_vars

\* a slide turn that merged two tiles and spawned a household
MergedAndSpawned ==
  /\ variant = "slide" /\ lastOp.op = "applyTurn"
  /\ game.summary.merges > 0 /\ game.summary.spawned
  /\ Cardinality(Occupied(boards[game.board])) >= 3

(***************************************************************************)
(* Properties of slideAndMerge.                                            *)
(***************************************************************************)
Slid == variant = "slideBoards" /\ probe.direction # "none"

Households(cells) == { x \in Occupied(cells) : cells[x.row][x.col].kind = "household" }

Institutions(cells) == Occupied(cells) \ Households(cells)

\* C13 as stated: slideAndMerge leaves the number of household tiles as it
\* was, for every board and direction.
SlideKeepsHouseholdCount ==
  Slid => Cardinality(Households(probe.after)) = Cardinality(Households(probe.before))

\* C13: slideAndMerge changes the number of household tiles by merging only:
\* every merge takes two households off the board and puts one institution
\* on it; without a merge the number of households is as it was.
SlideLosesHouseholdsOnlyByMerging ==
  Slid =>
    /\ Cardinality(Households(probe.after))
         = Cardinality(Households(probe.before)) - 2 * probe.merges
    /\ Cardinality(Institutions(probe.after))
         = Cardinality(Institutions(probe.before)) + probe.merges

\* a slide that moved one household and merged two others
SlidAndMerged ==
  /\ Slid /\ probe.merges > 0
  /\ Cardinality(Households(probe.after)) > 0
  /\ \E x \in Households(probe.after) : probe.before[x.row][x.col] # probe.after[x.row][x.col]

(***************************************************************************)
(* Relocation engine: occupancy.                                           *)
(***************************************************************************)
OfColor(cells, color) == { x \in Occupied(cells) : cells[x.row][x.col].color = color }

\* the cells whose tile is not the tile they held before
ChangedCells(before, after) ==
  { x \in allCoordinates(Size(before)) :
      Identity(before[x.row][x.col]) # Identity(after[x.row][x.col]) }

RelocOccupancyStep ==
  variant = "reloc" =>
    LET before == boards[game.board]
        after == boards'[game'.board]
        from == lastOp'.selected
        to == game'.summary.lastMove.to
    IN /\ game'.summary.vacancyCount = game.summary.vacancyCount
       /\ lastOp'.op = "applyTurn" =>
            /\ Cardinality(OfColor(after, "blue")) = Cardinality(OfColor(before, "blue"))
            /\ Cardinality(OfColor(after, "orange")) = Cardinality(OfColor(before, "orange"))
            /\ countVacancies(after) = countVacancies(before)
            /\ game'.summary.vacancyCount = countVacancies(after)
            /\ IF game'.turn = game.turn THEN ChangedCells(before, after) = {}
               ELSE /\ ChangedCells(before, after) = {from, to}
                    /\ from # to
                    /\ before[to.row][to.col] = NoTile
                    /\ after[from.row][from.col] = NoTile
                    /\ Identity(after[to.row][to.col]) = Identity(before[from.row][from.col])

\* C14: every applyTurn of the relocation variant preserves the number of
\* blue households, of orange households and of empty cells; an accepted move
\* changes exactly two cells, the source becoming empty and the destination
\* receiving the selected tile; summary.vacancyCount never changes.
RelocConservesOccupancy == [][RelocOccupancyStep]_vars

\* the second accepted move of a game
RelocatedTwice ==
  /\ variant = "reloc" /\ lastOp.op = "applyTurn"
  /\ game.summary.moved /\ game.summary.lastMove.present /\ game.turn >= 2

(***************************************************************************)
(* Slide-and-merge engine: locks.                                          *)
(***************************************************************************)
\* the household in cell x is the only household of its colour in its row
\* and the only one in its column
Isolated(cells, x) ==
  \A y \in Households(cells) :
    (y # x /\ (y.row = x.row \/ y.col = x.col)) =>
      cells[y.row][y.col].color # cells[x.row][x.col].color

\* C15: in every state of the slide variant returned by createInitialState or
\* by a turn-advancing applyTurn, a household is locked iff it is the only
\* household of its colour in its row and in its column, and no institutional
\* tile is locked: the flags are a function of the board alone.
LockedIffIsolated ==
  (variant = "slide" /\ lastOp.op \in {"createInitialState", "applyTurn"}) =>
    LET cells == boards[game.board]
    IN /\ \A x \in Households(cells) : cells[x.row][x.col].locked <=> Isolated(cells, x)
       /\ \A x \in Institutions(cells) : ~cells[x.row][x.col].locked

\* after a turn: a locked household, a free one and an institution
LockedAndFreeAfterTurn ==
  /\ variant = "slide" /\ lastOp.op = "applyTurn" /\ game.turn > 0
  /\ \E x \in Households(boards[game.board]) : boards[game.board][x.row][x.col].locked
  /\ \E x \in Households(boards[game.board]) : ~boards[game.board][x.row][x.col].locked
  /\ Institutions(boards[game.board]) # {}

(***************************************************************************)
(* slideAndMerge: walls.                                                   *)
(***************************************************************************)
\* the cells of a matrix that hold a locked household or an institution
Walls(cells) ==
  { x \in Occupied(cells) : cells[x.row][x.col].kind # "household" \/ cells[x.row][x.col].locked }

\* the cell next to x in the direction of the slide
Ahead(x, direction) ==
  Coord(x.row + directionVector(direction).row, x.col + directionVector(direction).col)

\* C16: a tile that is a locked household or an institution when slideAndMerge
\* starts stays in its cell with its id and kind and is not merged into, and a
\* household that slides up to it stops in the cell next to it: after the
\* slide every free household has the edge of the board or a wall ahead.
WallsStandInSlide ==
  Slid =>
    /\ \A x \in Walls(probe.before) :
         /\ Identity(probe.after[x.row][x.col]) = Identity(probe.before[x.row][x.col])
         /\ probe.after[x.row][x.col].locked = probe.before[x.row][x.col].locked
    /\ \A y \in Households(probe.after) \ Walls(probe.after) :
         \/ ~isInBounds(probe.after, Ahead(y, probe.direction).row, Ahead(y, probe.direction).col)
         \/ Ahead(y, probe.direction) \in Walls(probe.after)

\* a household slid up to a locked household and stopped next to it
StoppedAtLockedHousehold ==
  /\ Slid
  /\ \E y \in Households(probe.after) \ Walls(probe.after) :
       /\ probe.before[y.row][y.col] = NullTile
       /\ Ahead(y, probe.direction) \in Walls(probe.before)
       /\ probe.before[Ahead(y, probe.direction).row][Ahead(y, probe.direction).col].kind = "household"

(***************************************************************************)
(* Slide-and-merge engine: institutions.                                   *)
(***************************************************************************)
\* C17: once a gated_community or community_center is on the board of a slide
\* game it holds the same cell with the same id and kind in every later
\* state: no slide, merge, flight, flight relocation or spawn touches it.
InstitutionsStay ==
  [][variant = "slide" =>
       \A x \in Institutions(boards[game.board]) :
         Identity(boards'[game'.board][x.row][x.col]) = Identity(boards[game.board][x.row][x.col])]_vars

\* a turn that slid, spawned a household and started with an institution on
\* the board
TurnWithInstitution ==
  /\ variant = "slide" /\ lastOp.op = "applyTurn" /\ Len(hist) > 0
  /\ hist[Len(hist)].board # game.board
  /\ Institutions(hist[Len(hist)].cells) # {}
  /\ game.summary.moved /\ game.summary.spawned

(***************************************************************************)
(* Slide-and-merge engine: turns.                                          *)
(***************************************************************************)
\* C18: an applyTurn of an active slide game in a direction in which no tile
\* changes position and no merge occurs returns board, turn, totalScore,
\* integrationTurnsSurvived, gameOver and gameOverReason unchanged, runs no
\* flight and no spawn and reports moved = false.
NoOpSlideChangesNothing ==
  [][(/\ variant = "slide" /\ lastOp'.op = "applyTurn" /\ ~game.gameOver
      /\ NothingMoves(boards[game.board], lastOp'.direction))
       => /\ game'.board = game.board
          /\ boards'[game'.board] = boards[game.board]
          /\ game'.turn = game.turn
          /\ game'.totalScore = game.totalScore
          /\ game'.integrationTurnsSurvived = game.integrationTurnsSurvived
          /\ game'.gameOver = game.gameOver
          /\ game'.gameOverReason = game.gameOverReason
          /\ ~game'.summary.moved /\ game'.summary.merges = 0
          /\ game'.summary.flightCount = 0 /\ ~game'.summary.spawned
          /\ tileCounter' = tileCounter]_vars

\* an active slide game has been given a direction in which its free
\* households have the edge or a wall ahead
BlockedSlideSeen ==
  /\ variant = "slide" /\ lastOp.op = "applyTurn" /\ ~game.gameOver
  /\ Len(hist) > 0 /\ hist[Len(hist)].board = game.board
  /\ NothingMoves(boards[game.board], lastOp.direction)
  /\ Households(boards[game.board]) \ Walls(boards[game.board]) # {}
  /\ ~game.summary.moved

\* at least one household, and every household locked
AllHouseholdsLocked(cells) ==
  Households(cells) # {} /\ Households(cells) \subseteq Walls(cells)

\* C19: after every turn-advancing applyTurn of the slide variant gameOver is
\* true iff the returned board is fully locked or nothing moves in any of the
\* four directions; the reason is fully_locked in the first case and
\* no_legal_moves otherwise; the probes of the directions leave the returned
\* board as it was: no merge beyond those of the slide, no merge flag, the
\* locks of the board.
GameOverIffLockedOrStuck ==
  [][(variant = "slide" /\ lastOp'.op = "applyTurn" /\ game'.turn # game.turn) =>
       LET cells == boards'[game'.board]
           full == AllHouseholdsLocked(cells)
           stuck == \A direction \in Directions : NothingMoves(cells, direction)
       IN /\ game'.gameOver <=> (full \/ stuck)
          /\ game'.gameOverReason =
               (IF full THEN "fully_locked" ELSE IF stuck THEN "no_legal_moves" ELSE "null")
          /\ Cardinality(Institutions(cells))
               = Cardinality(Institutions(boards[game.board])) + game'.summary.merges
          /\ \A x \in Occupied(cells) : ~cells[x.row][x.col].mergedThisTurn
          /\ \A x \in Households(cells) : cells[x.row][x.col].locked <=> Isolated(cells, x)]_vars

\* a turn ended the game for want of a legal move although a household is free
StuckWithFreeHousehold ==
  /\ variant = "slide" /\ lastOp.op = "applyTurn" /\ game.turn > 0
  /\ game.gameOver /\ game.gameOverReason = "no_legal_moves"
  /\ ~AllHouseholdsLocked(boards[game.board])

(***************************************************************************)
(* Both engines: endSession.                                               *)
(***************************************************************************)
\* C20: endSession applied to an active state of either variant returns a
\* state with gameOver = true and gameOverReason = manual_end whose board,
\* turn, score fields and summary are those of the input, whatever the
\* termination checks would say of the board.
EndSessionOnlyEndsTheGame ==
  [][(InGame /\ lastOp'.op = "endSession" /\ ~game.gameOver) =>
       /\ game' = [game EXCEPT !.gameOver = TRUE, !.gameOverReason = "manual_end"]
       /\ game'.gameOver /\ game'.gameOverReason = "manual_end"
       /\ game'.board = game.board /\ game'.turn = game.turn /\ game'.summary = game.summary
       /\ boards'[game'.board] = boards[game.board]
       /\ tileCounter' = tileCounter]_vars

\* a game that was running after some turns has been ended by hand
RunningGameEndedByHand ==
  /\ InGame /\ lastOp.op = "endSession" /\ game.turn > 0
  /\ game.gameOver /\ game.gameOverReason = "manual_end"
  /\ \/ variant = "reloc" /\ game.summary.unhappyAfter > 0
     \/ variant = "slide" /\ game.summary.moved /\ ~AllHouseholdsLocked(boards[game.board])

(***************************************************************************)
(* Happiness classifiers: households without neighbours.                   *)
(***************************************************************************)
\* the households of the board with no occupied cell among their eight
\* neighbours
Alone(colors) ==
  { x \in allCoordinates(Size(colors)) :
      /\ colors[x.row][x.col] # "none"
      /\ \A y \in allCoordinates(Size(colors)) :
           (y # x /\ Abs(x.row - y.row) <= 1 /\ Abs(x.col - y.col) <= 1)
             => colors[y.row][y.col] = "none" }

\* C21 as stated: no classifier of the code, analyzeBoard or the relocation
\* engine's recomputeHappiness, marks a household unhappy that has no occupied
\* cell among its eight neighbours.
AloneIsHappyEverywhere ==
  probe.module \in {"app", "engine"} => Alone(probe.colors) \cap probe.unhappyKeys = {}

\* C21: analyzeBoard never marks a household unhappy that has no occupied
\* cell among its eight neighbours, whatever its colour and the preference
\* rule; the relocation engine's recomputeHappiness marks every such
\* household unhappy, as it has no same-colour orthogonal neighbour.
AloneIsHappyInAppUnhappyInEngine ==
  /\ probe.module = "app" => Alone(probe.colors) \cap probe.unhappyKeys = {}
  /\ probe.module = "engine" => Alone(probe.colors) \subseteq probe.unhappyKeys

\* both colours alone on a board classified under the narrowest rule, which
\* marks a household of the board unhappy
AloneUnderNarrowRule ==
  /\ probe.module = "app"
  /\ probe.preference = [minLike |-> 60, maxLike |-> 65]
  /\ \E x \in Alone(probe.colors), y \in Alone(probe.colors) :
       probe.colors[x.row][x.col] = "blue" /\ probe.colors[y.row][y.col] = "orange"
  /\ probe.unhappyKeys # {}

(***************************************************************************)
(* Relocation engine: the unhappy flag.                                    *)
(***************************************************************************)
\* the households of the board next to (above, below, left or right of) a
\* household of their colour
Supported(cells) ==
  { x \in Occupied(cells) :
      \E y \in Occupied(cells) :
        /\ Abs(x.row - y.row) + Abs(x.col - y.col) = 1
        /\ cells[y.row][y.col].color = cells[x.row][x.col].color }

Flagged(cells) == { x \in Occupied(cells) : cells[x.row][x.col].unhappy }

\* C22: in every state of the relocation engine a household is flagged
\* unhappy iff none of its four orthogonal neighbours is a household of its
\* colour, and summary.unhappyAfter is the number of flagged households of
\* the state's board.
UnhappyIsDerived ==
  variant = "reloc" =>
    /\ Flagged(boards[game.board]) = Occupied(boards[game.board]) \ Supported(boards[game.board])
    /\ game.summary.unhappyAfter = Cardinality(Flagged(boards[game.board]))

\* a move has changed the number of unhappy households and left some of
\* either kind
UnhappyCountChangedByMove ==
  /\ variant = "reloc" /\ game.turn > 0 /\ game.summary.moved
  /\ game.summary.unhappyAfter # game.summary.unhappyBefore
  /\ Flagged(boards[game.board]) # {}
  /\ Supported(boards[game.board]) # {}

(***************************************************************************)
(* generateEquilibriumMap: properties.                                     *)
(***************************************************************************)
\* the colour of the k-th cell of the map in row-major order
MapCell(k) == probe.map[k \div probe.size][k % probe.size]

\* C23: when blue + orange <= size * size, the map has `size` rows of `size`
\* cells, its first `blue` cells in row-major order are blue, its last
\* `orange` cells are orange and the cells in between are empty.
EquilibriumMapPacksBothEnds ==
  (probe.module = "debrief" /\ probe.blue + probe.orange <= probe.size * probe.size) =>
    /\ DOMAIN probe.map = 0 .. probe.size - 1
    /\ \A r \in DOMAIN probe.map : DOMAIN probe.map[r] = 0 .. probe.size - 1
    /\ \A k \in CellIndexes(probe.size) :
         MapCell(k) = IF k < probe.blue THEN "blue"
                      ELSE IF k >= probe.size * probe.size - probe.orange THEN "orange"
                      ELSE "none"

\* a map of side 3 with blue cells, orange cells and empty cells in between,
\* the blue ones ending inside a row
EquilibriumMapWithGap ==
  /\ probe.module = "debrief" /\ probe.size = 3
  /\ probe.blue = 4 /\ probe.orange = 2
  /\ MapCell(3) = "blue" /\ MapCell(4) = "none" /\ MapCell(7) = "orange"

(***************************************************************************)
(* slideAndMerge tile by tile: merges.                                     *)
(***************************************************************************)
\* an iteration of the for loop of slideAndMerge
SlideStep == variant = "slideSteps" /\ probe.phase = "sliding" /\ probe'.phase = "sliding"

\* the cell k steps from x in the direction of the slide
StepsAhead(x, k) ==
  Coord(x.row + k * directionVector(probe.direction).row,
        x.col + k * directionVector(probe.direction).col)

\* the iteration slid its tile by k cells and merged it into the tile in the
\* next cell
MergedAfter(k) ==
  LET b == probe.w.cells
      a == probe'.w.cells
      from == probe'.at
      last == StepsAhead(from, k)
      t == StepsAhead(from, k + 1)
  IN /\ isInBounds(b, t.row, t.col)
     /\ \A j \in 1 .. k : b[StepsAhead(from, j).row][StepsAhead(from, j).col] = NullTile
     /\ b[t.row][t.col] # NullTile
     /\ b[t.row][t.col].kind = "household" /\ ~b[t.row][t.col].locked
     /\ a[t.row][t.col].kind = IF b[from.row][from.col].color = b[t.row][t.col].color
                               THEN "gated_community" ELSE "community_center"
     /\ a[t.row][t.col].color = "null"
     /\ a[t.row][t.col].id \notin (IdsOn(probe.before) \cup IdsOn(b))
     /\ a[t.row][t.col].id > tileCounter
     /\ a[last.row][last.col] = NullTile /\ a[from.row][from.col] = NullTile
     /\ \A x \in allCoordinates(Size(b)) \ {from, last, t} : a[x.row][x.col] = b[x.row][x.col]

\* C24: an iteration that merges has slid a household over empty cells up to
\* an unlocked household; the target's cell then holds a new tile with an id
\* no tile had before and no colour, a gated_community if the two households
\* had the same colour and a community_center if not; the cell the mover left
\* last is empty, like the one it started from, and no other cell has changed.
MergeReplacesTwoHouseholdsByOneInstitution ==
  [][(SlideStep /\ probe'.w.merges # probe.w.merges) =>
        /\ probe'.w.merges = probe.w.merges + 1
        /\ \E k \in 0 .. Size(probe.before) - 2 : MergedAfter(k)]_vars

\* after a merge of two households of different colours two cells away from
\* where the mover started; an earlier merge of the pass joined two of the
\* same colour
MergedBothKinds ==
  /\ variant = "slideSteps" /\ probe.phase = "sliding" /\ probe.w.merges = 2
  /\ \E x \in Institutions(probe.w.cells) :
       /\ probe.w.cells[x.row][x.col].kind = "community_center"
       /\ probe.w.cells[x.row][x.col].id = tileCounter
       /\ x = StepsAhead(probe.at, 2)
  /\ \E y \in Institutions(probe.w.cells) :
       /\ probe.w.cells[y.row][y.col].kind = "gated_community"
       /\ probe.w.cells[y.row][y.col].id = tileCounter - 1

(***************************************************************************)
(* slideAndMerge tile by tile: no chain of merges.                         *)
(***************************************************************************)
\* the cells holding a tile made by a merge of this pass
MadeInPass(cells) == { x \in Occupied(cells) : cells[x.row][x.col].id \notin IdsOn(probe.before) }

\* an iteration leaves the tiles made earlier in the pass where and what they
\* are, and a merge takes two tiles of the start off the board for good
MergesOnlyStartTiles ==
  SlideStep =>
    /\ \A x \in MadeInPass(probe.w.cells) :
         Identity(probe'.w.cells[x.row][x.col]) = Identity(probe.w.cells[x.row][x.col])
    /\ probe'.taken[Len(probe'.taken)] \in IdsOn(probe.before)
    /\ (IdsOn(probe.w.cells) \ IdsOn(probe'.w.cells)) \subseteq IdsOn(probe.before)
    /\ Cardinality(IdsOn(probe.w.cells) \ IdsOn(probe'.w.cells))
         = 2 * (probe'.w.merges - probe.w.merges)
    /\ Cardinality(IdsOn(probe.before) \ IdsOn(probe'.w.cells)) = 2 * probe'.w.merges

\* the first row of the board is full of unlocked households
FullFreeRow(cells) ==
  \A c \in DOMAIN cells : cells[0][c] # NullTile /\ cells[0][c].kind = "household"
                            /\ ~cells[0][c].locked

\* C25: in one pass of slideAndMerge a tile of the start takes part in at
\* most one merge (the merge takes it off the board), and a tile made by a
\* merge of the pass is neither moved nor merged into later in the pass; a
\* full row of four unlocked households slid along the row ends with exactly
\* two institutional tiles.
NoChainMerges ==
  /\ [][MergesOnlyStartTiles]_vars
  /\ []((variant = "slideSteps" /\ probe.phase = "done" /\ Size(probe.before) = 4
           /\ FullFreeRow(probe.before) /\ probe.direction \in {"left", "right"})
          => Cardinality({ x \in Institutions(probe.w.cells) : x.row = 0 }) = 2)

\* a full row of households of one colour has been slid to the right: two
\* institutions at the right end, two empty cells
FullRowSlidRight ==
  /\ variant = "slideSteps" /\ probe.phase = "done" /\ probe.direction = "right"
  /\ FullFreeRow(probe.before)
  /\ \A c \in DOMAIN probe.before : probe.before[0][c].color = "blue"
  /\ probe.w.merges = 2
  /\ probe.w.cells[0][0] = NullTile /\ probe.w.cells[0][1] = NullTile
  /\ { Coord(0, 2), Coord(0, 3) } \subseteq Institutions(probe.w.cells)

(***************************************************************************)
(* slideAndMerge tile by tile: every tile once, as far as possible.        *)
(***************************************************************************)
\* C26: in one pass of slideAndMerge no tile is taken as the sliding tile
\* twice, and after the pass every unlocked household left on the board has
\* the edge of the board, a locked household or an institutional tile in the
\* next cell in the direction of the slide.
EachTileSlidOnceAsFarAsPossible ==
  variant = "slideSteps" =>
    /\ Cardinality({ probe.taken[j] : j \in DOMAIN probe.taken }) = Len(probe.taken)
    /\ probe.phase = "done" =>
         \A y \in Households(probe.w.cells) :
           \/ probe.w.cells[y.row][y.col].locked
           \/ ~isInBounds(probe.w.cells, StepsAhead(y, 1).row, StepsAhead(y, 1).col)
           \/ probe.w.cells[StepsAhead(y, 1).row][StepsAhead(y, 1).col] # NullTile
                /\ (probe.w.cells[StepsAhead(y, 1).row][StepsAhead(y, 1).col].kind # "household"
                      \/ probe.w.cells[StepsAhead(y, 1).row][StepsAhead(y, 1).col].locked)

\* after a pass to the right that took three tiles: one household has slid
\* to the edge and one rests against the institution made by the merge
SlidAgainstEdgeLockAndInstitution ==
  /\ variant = "slideSteps" /\ probe.phase = "done" /\ probe.direction = "right"
  /\ Len(probe.taken) = 3 /\ probe.w.merges = 1
  /\ \E y \in Households(probe.w.cells) :
       /\ ~probe.w.cells[y.row][y.col].locked
       /\ probe.before[y.row][y.col] = NullTile
       /\ ~isInBounds(probe.w.cells, StepsAhead(y, 1).row, StepsAhead(y, 1).col)
  /\ \E y \in Households(probe.w.cells) :
       /\ ~probe.w.cells[y.row][y.col].locked
       /\ StepsAhead(y, 1) \in MadeInPass(probe.w.cells)

(***************************************************************************)
(* applyFlight: candidates.                                                *)
(***************************************************************************)
\* the units of the board as sets of cells: rows, columns or 2x2 sectors
UnitsOf(size, tippingUnit) ==
  CASE tippingUnit = "row" ->
         { { x \in allCoordinates(size) : x.row = r } : r \in 0 .. size - 1 }
    [] tippingUnit = "column" ->
         { { x \in allCoordinates(size) : x.col = c } : c \in 0 .. size - 1 }
    [] OTHER ->
         { { x \in allCoordinates(size) : x.row \in {r, r + 1} /\ x.col \in {c, c + 1} } :
             r \in 0 .. size - 2, c \in 0 .. size - 2 }

\* number of orange households of a unit, times 100, compared with the
\* threshold in percent times the number of households of the unit
OrangeShareOver(cells, unit, pct) ==
  100 * Cardinality(unit \cap OfColor(cells, "orange"))
    > pct * Cardinality(unit \cap Households(cells))

OrangeShareIs(cells, unit, pct) ==
  /\ unit \cap Households(cells) # {}
  /\ 100 * Cardinality(unit \cap OfColor(cells, "orange"))
       = pct * Cardinality(unit \cap Households(cells))

TippedUnits(cells, config) ==
  { unit \in UnitsOf(Size(cells), config.tippingUnit) :
      /\ unit \cap Households(cells) # {}
      /\ OrangeShareOver(cells, unit, config.tippingThreshold) }

\* C27: the candidates of applyFlight are the blue households that lie in a
\* unit with households whose orange share is strictly above
\* tippingThreshold, each of them once.
FlightCandidatesAreBlueOfTippedUnits ==
  (variant = "flight" /\ probe.module = "applyFlight") =>
    /\ { probe.targets[i] : i \in DOMAIN probe.targets }
         = { x \in OfColor(probe.before, "blue") :
               \E unit \in TippedUnits(probe.before, rawConfig) : x \in unit }
    /\ Cardinality({ probe.targets[i] : i \in DOMAIN probe.targets }) = Len(probe.targets)

\* sectors, threshold one half: a blue household lies in two tipped sectors,
\* and a sector whose share is exactly one half holds a blue household that
\* is no candidate
CandidateOfTwoSectors ==
  /\ variant = "flight" /\ probe.module = "applyFlight"
  /\ rawConfig.tippingUnit = "sector2x2" /\ rawConfig.tippingThreshold = 50
  /\ \E x \in OfColor(probe.before, "blue") :
       Cardinality({ unit \in TippedUnits(probe.before, rawConfig) : x \in unit }) = 2
  /\ \E unit \in UnitsOf(Size(probe.before), "sector2x2"), y \in OfColor(probe.before, "blue") :
       /\ OrangeShareIs(probe.before, unit, 50)
       /\ y \in unit
       /\ \A i \in DOMAIN probe.targets : probe.targets[i] # y

(***************************************************************************)
(* applyFlight: deterministic mode.                                        *)
(***************************************************************************)
\* the blue households of the tipped units of the board flight is applied to
Candidates ==
  { x \in OfColor(probe.before, "blue") :
      \E unit \in TippedUnits(probe.before, rawConfig) : x \in unit }

\* the cells of candidates whose household has left: the cell is empty or
\* holds another tile
Vacated ==
  { x \in Candidates :
      \/ probe.after[x.row][x.col] = NullTile
      \/ probe.after[x.row][x.col].id # probe.before[x.row][x.col].id }

DeterministicFlight ==
  variant = "flight" /\ probe.module = "applyFlight" /\ rawConfig.flightMode = "deterministic"

\* C28: in deterministic mode applyFlight returns floor(candidates / 2), and
\* that many households leave cells of candidates; every other tile stays
\* where it is.  When the households despawn, the cells they left are empty
\* and the board has that many blue households less.
HalfOfCandidatesFlee ==
  DeterministicFlight =>
    /\ probe.events = Cardinality(Candidates) \div 2
    /\ Cardinality(Vacated) = Cardinality(Candidates) \div 2
    /\ \A x \in Occupied(probe.before) \ Vacated :
         probe.after[x.row][x.col] = probe.before[x.row][x.col]
    /\ rawConfig.flightBehavior = "despawn" =>
         /\ \A x \in Vacated : probe.after[x.row][x.col] = NullTile
         /\ Cardinality(OfColor(probe.after, "blue"))
              = Cardinality(OfColor(probe.before, "blue")) - Cardinality(Candidates) \div 2

\* two tipped rows with three blue households between them: one of them has
\* fled to a border cell
OneOfThreeFled ==
  /\ DeterministicFlight /\ rawConfig.tippingUnit = "row"
  /\ rawConfig.flightBehavior = "edge-relocate"
  /\ Cardinality(Candidates) = 3 /\ probe.events = 1
  /\ \E x \in Vacated, y \in OfColor(probe.after, "blue") :
       /\ probe.after[x.row][x.col] = NullTile
       /\ probe.after[y.row][y.col].id = probe.before[x.row][x.col].id

(***************************************************************************)
(* applyFlight: the border cell a fleeing household is put on.             *)
(***************************************************************************)
\* the border cells of the board that are empty once the household has left,
\* the cell it left not among them
OpenBorder ==
  { x \in allCoordinates(Size(probe.after)) :
      /\ x.row \in {0, Size(probe.after) - 1} \/ x.col \in {0, Size(probe.after) - 1}
      /\ probe.after[x.row][x.col] = NullTile
      /\ x # probe.departure }

\* twice the distance of a border cell from what the household flees: the
\* nearest orange household, or the centre of the board if there is none
Remoteness(x) ==
  IF OfColor(probe.after, "orange") = {}
  THEN Abs(2 * x.row - (Size(probe.after) - 1)) + Abs(2 * x.col - (Size(probe.after) - 1))
  ELSE CHOOSE d \in { 2 * (Abs(x.row - o.row) + Abs(x.col - o.col)) :
                        o \in OfColor(probe.after, "orange") } :
         \A o \in OfColor(probe.after, "orange") :
           d <= 2 * (Abs(x.row - o.row) + Abs(x.col - o.col))

\* C29: the cell chosen for a household that flees under edge-relocate is an
\* empty border cell other than the cell it left, and no such cell is farther
\* from the nearest orange household (from the centre of the board when there
\* is no orange household); a cell is chosen whenever there is such a cell.
FleesToFarthestOpenBorderCell ==
  (variant = "flight" /\ probe.module = "findFarthestEdgeCell") =>
    IF OpenBorder = {} THEN probe.edgeTarget = NoCoord
    ELSE /\ probe.edgeTarget \in OpenBorder
         /\ \A x \in OpenBorder : Remoteness(x) <= Remoteness(probe.edgeTarget)

\* a household in a corner has fled from an orange household to a border cell
\* although the corner it left is farther from every orange household
FledThoughOwnCellFarther ==
  /\ variant = "flight" /\ probe.module = "findFarthestEdgeCell"
  /\ probe.edgeTarget # NoCoord
  /\ OfColor(probe.after, "orange") # {}
  /\ \A o \in OfColor(probe.after, "orange") :
       Remoteness(probe.edgeTarget)
         < 2 * (Abs(probe.departure.row - o.row) + Abs(probe.departure.col - o.col))
  /\ \E x \in OpenBorder : Remoteness(x) < Remoteness(probe.edgeTarget)

(***************************************************************************)
(* Slide-and-merge engine: the order of the steps of a turn.               *)
(***************************************************************************)
\* an applyTurn of the slide engine that advances the turn
SlideTurnAdvances == variant = "slide" /\ lastOp'.op = "applyTurn" /\ game'.turn # game.turn

\* the households of `after` that are not tiles of `before`
NewHouseholds(before, after) ==
  { x \in Households(after) : after[x.row][x.col].id \notin IdsOn(before) }

\* the blue households of the tipped units of the board
CandidatesOn(cells, config) ==
  { x \in OfColor(cells, "blue") : \E unit \in TippedUnits(cells, config) : x \in unit }

\* the turn went from `before` over `slid`, the board after the slide, to
\* `after`
StepsInOrder(before, slid, after) ==
  /\ game'.turn = game.turn + 1
  \* flight: its candidates are those of the board after the slide, and every
  \* other household of that board is where the slide left it
  /\ game'.summary.flightCount <= Cardinality(CandidatesOn(slid, rawConfig))
  /\ rawConfig.flightMode = "deterministic" =>
       game'.summary.flightCount = Cardinality(CandidatesOn(slid, rawConfig)) \div 2
  /\ \A x \in Occupied(slid) \ CandidatesOn(slid, rawConfig) :
       Identity(after[x.row][x.col]) = Identity(slid[x.row][x.col])
  /\ rawConfig.flightBehavior = "despawn" =>
       Cardinality({ x \in Households(slid) : slid[x.row][x.col].id \notin IdsOn(after) })
         = game'.summary.flightCount
  \* spawn: the new household has not fled, and its colour is one the orange
  \* share of the new turn allows
  /\ Cardinality(NewHouseholds(before, after)) = (IF game'.summary.spawned THEN 1 ELSE 0)
  /\ \A x \in NewHouseholds(before, after) :
       IF after[x.row][x.col].color = "orange"
       THEN rawConfig.spawnOrange + rawConfig.spawnRatioShiftPerTurn * game'.turn > 0
       ELSE rawConfig.spawnOrange + rawConfig.spawnRatioShiftPerTurn * game'.turn < 100
  \* locks and termination: those of the board with the new household
  /\ \A x \in Households(after) : after[x.row][x.col].locked <=> Isolated(after, x)
  /\ game'.gameOver <=>
       (AllHouseholdsLocked(after) \/ \A direction \in Directions : NothingMoves(after, direction))

\* C30: a turn-advancing applyTurn of the slide variant slides, then applies
\* flight to the board after the slide, then adds 1 to the turn, then spawns
\* with the orange share of the new turn, then recomputes the locks: the
\* household spawned in the turn is not a flight candidate of the turn, and
\* gameOver is that of the board with the spawned household.
TurnStepsInOrder ==
  [][SlideTurnAdvances =>
       StepsInOrder(boards[game.board],
                    slideAndMerge(boards[game.board], game.board, lastOp'.direction,
                                  tileCounter).cells,
                    boards'[game'.board])]_vars

\* a turn with a flight has spawned a blue household into a tipped unit
SpawnedIntoTippedUnit ==
  /\ variant = "slide" /\ lastOp.op = "applyTurn" /\ game.turn > 0
  /\ game.summary.flightCount > 0 /\ game.summary.spawned
  /\ \E x \in CandidatesOn(boards[game.board], rawConfig) :
       boards[game.board][x.row][x.col].id = tileCounter

(***************************************************************************)
(* Slide-and-merge engine: spawning.                                       *)
(***************************************************************************)
\* the tiles of `before` that are not on `after`
LostTiles(before, after) == IdsOn(before) \ IdsOn(after)

\* C31: a turn-advancing applyTurn of the slide variant puts
\* config.spawnPerTurn new households on the board, each with an id no tile
\* had before, and takes no tile off the board beyond those merged and those
\* that fled.
SpawnsConfiguredNumber ==
  [][SlideTurnAdvances =>
       LET before == boards[game.board]
           after == boards'[game'.board]
       IN /\ Cardinality(NewHouseholds(before, after)) = rawConfig.spawnPerTurn
          /\ \A x \in NewHouseholds(before, after) : after[x.row][x.col].id > tileCounter
          /\ Cardinality(LostTiles(before, after))
               <= 2 * game'.summary.merges + game'.summary.flightCount
          /\ rawConfig.flightBehavior = "despawn" =>
               Cardinality(LostTiles(before, after))
                 = 2 * game'.summary.merges + game'.summary.flightCount]_vars

(***************************************************************************)
(* analyzeBoard: the band of the preference rule.                          *)
(***************************************************************************)
\* the occupied cells around x, diagonals included
Around(colors, x) ==
  { y \in allCoordinates(Size(colors)) :
      /\ y # x /\ Abs(x.row - y.row) <= 1 /\ Abs(x.col - y.col) <= 1
      /\ colors[y.row][y.col] # "none" }

AlikeAround(colors, x) ==
  { y \in Around(colors, x) : colors[y.row][y.col] = colors[x.row][x.col] }

\* the share of x's occupied neighbours that have its colour is below minLike
BelowBand(colors, x, preference) ==
  100 * Cardinality(AlikeAround(colors, x)) < preference.minLike * Cardinality(Around(colors, x))

\* ... is above maxLike
AboveBand(colors, x, preference) ==
  100 * Cardinality(AlikeAround(colors, x)) > preference.maxLike * Cardinality(Around(colors, x))

\* C32: analyzeBoard counts a household unhappy iff it has an occupied
\* neighbour among the eight cells around it and the share of its occupied
\* neighbours that have its colour is below minLike or above maxLike; empty
\* cells are not counted, and unhappyCount is the number of unhappyKeys.
UnhappyIffOutsideBand ==
  (variant = "happiness" /\ probe.module = "app") =>
    /\ probe.unhappyKeys =
         { x \in allCoordinates(Size(probe.colors)) :
             /\ probe.colors[x.row][x.col] # "none"
             /\ Around(probe.colors, x) # {}
             /\ (BelowBand(probe.colors, x, probe.preference)
                   \/ AboveBand(probe.colors, x, probe.preference)) }
    /\ probe.unhappyCount = Cardinality(probe.unhappyKeys)

\* under the band 10% - 80% one household is unhappy for having no neighbour
\* of its colour, one for having only such neighbours, and one with
\* neighbours is happy
UnhappyOnBothSidesOfBand ==
  /\ variant = "happiness" /\ probe.module = "app"
  /\ probe.preference = [minLike |-> 10, maxLike |-> 80]
  /\ \E x \in probe.unhappyKeys : BelowBand(probe.colors, x, probe.preference)
  /\ \E x \in probe.unhappyKeys : AboveBand(probe.colors, x, probe.preference)
  /\ \E x \in allCoordinates(Size(probe.colors)) :
       /\ probe.colors[x.row][x.col] # "none" /\ Around(probe.colors, x) # {}
       /\ x \notin probe.unhappyKeys

(***************************************************************************)
(* Slide-and-merge engine: scoring.                                        *)
(***************************************************************************)
\* the households of a row
InRow(cells, row) == { x \in Households(cells) : x.row = row }

\* the rows whose orange share among their households lies in the band; a
\* row without households has share 0
RowsInBand(cells, config) ==
  { row \in DOMAIN cells :
      IF InRow(cells, row) = {}
      THEN config.integrationBandMin <= 0 /\ 0 <= config.integrationBandMax
      ELSE /\ 100 * Cardinality(InRow(cells, row) \cap OfColor(cells, "orange"))
                >= config.integrationBandMin * Cardinality(InRow(cells, row))
           /\ 100 * Cardinality(InRow(cells, row) \cap OfColor(cells, "orange"))
                <= config.integrationBandMax * Cardinality(InRow(cells, row)) }

\* both colours are on the board and no row holds both
Segregated(cells) ==
  /\ OfColor(cells, "blue") # {} /\ OfColor(cells, "orange") # {}
  /\ \A x \in OfColor(cells, "blue"), y \in OfColor(cells, "orange") : x.row # y.row

\* C33: on every turn-advancing applyTurn of the slide variant pointsGained
\* is integrationPointsPerRow times the number of rows of the returned board
\* whose orange share lies in the integration band, totalScore grows by
\* pointsGained and integrationTurnsSurvived by 1 iff there is such a row;
\* under the band 30% - 70% a row without households or of one colour is no
\* such row; a segregated board sets segregationWarning and is no reason to
\* end the game.
ScoreCountsRowsInBand ==
  [][SlideTurnAdvances =>
       LET after == boards'[game'.board]
           rows == RowsInBand(after, rawConfig)
       IN /\ game'.summary.integrationRows = Cardinality(rows)
          /\ game'.summary.pointsGained = rawConfig.integrationPointsPerRow * Cardinality(rows)
          /\ game'.totalScore = game.totalScore + game'.summary.pointsGained
          /\ game'.integrationTurnsSurvived
               = game.integrationTurnsSurvived + (IF rows # {} THEN 1 ELSE 0)
          /\ (rawConfig.integrationBandMin = 30 /\ rawConfig.integrationBandMax = 70) =>
               \A row \in rows :
                 /\ InRow(after, row) \cap OfColor(after, "orange") # {}
                 /\ InRow(after, row) \cap OfColor(after, "blue") # {}
          /\ game'.summary.segregationWarning <=> Segregated(after)
          /\ game'.gameOver <=>
               (AllHouseholdsLocked(after)
                  \/ \A direction \in Directions : NothingMoves(after, direction))]_vars

\* after a turn that scored, a turn has left the board segregated and the
\* game running
SegregatedAfterScoring ==
  /\ variant = "slide" /\ lastOp.op = "applyTurn" /\ game.turn = 2
  /\ game.summary.segregationWarning /\ ~game.gameOver
  /\ game.summary.pointsGained = 0 /\ game.totalScore > 0
  /\ game.integrationTurnsSurvived = 1

(***************************************************************************)
(* slideAndMerge: tile accounting.                                         *)
(***************************************************************************)
\* C34: for every board and direction the number of tiles after slideAndMerge
\* is the number before minus the returned merges, the number of
\* institutional tiles is larger by merges, the number of households smaller
\* by twice merges, and moved is true when merges > 0.
SlideAccountsForTiles ==
  Slid =>
    /\ Cardinality(Occupied(probe.after)) = Cardinality(Occupied(probe.before)) - probe.merges
    /\ Cardinality(Institutions(probe.after))
         = Cardinality(Institutions(probe.before)) + probe.merges
    /\ Cardinality(Households(probe.after))
         = Cardinality(Households(probe.before)) - 2 * probe.merges
    /\ probe.merges > 0 => probe.moved
    /\ probe.merges = Cardinality(IdsOn(probe.after) \ IdsOn(probe.before))

\* a slide down a board with an institution has merged the households of all
\* three columns
MergedInEveryColumn ==
  /\ Slid /\ probe.direction = "down" /\ probe.merges = 3 /\ probe.moved
  /\ Cardinality(Occupied(probe.before)) = 6
  /\ Households(probe.after) = {}

(***************************************************************************)
(* applyFlight: households under edge-relocate.                            *)
(***************************************************************************)
\* C35: under flightBehavior edge-relocate applyFlight leaves the number of
\* blue households and the number of orange households of the board
\* unchanged, whatever the number of empty border cells.
RelocatingFlightKeepsHouseholds ==
  (variant = "flight" /\ probe.module = "applyFlight"
     /\ rawConfig.flightBehavior = "edge-relocate") =>
    /\ Cardinality(OfColor(probe.after, "blue") \cap Households(probe.after))
         = Cardinality(OfColor(probe.before, "blue") \cap Households(probe.before))
    /\ Cardinality(OfColor(probe.after, "orange") \cap Households(probe.after))
         = Cardinality(OfColor(probe.before, "orange") \cap Households(probe.before))

(***************************************************************************)
(* Slide-and-merge engine: the spawn of an advancing turn.                 *)
(***************************************************************************)
\* the boards applyFlight can leave of the board after the slide
AfterFlight(slid) ==
  { applyFlight(recomputeLocks(slid), rawConfig, draw.flee, draw.edge).cells :
      draw \in { d \in TurnDraws : FleePossible(rawConfig, d.flee) } }

\* C36: on an applyTurn of the slide variant that reports moved = true every
\* board flight can leave of the board after the slide has an empty cell, the
\* summary reports spawned = true, and the board after the turn holds the
\* tiles of one of those boards and one household more.
SpawnNeverFails ==
  [][(SlideTurnAdvances /\ game'.summary.moved) =>
       LET slid == slideAndMerge(boards[game.board], game.board, lastOp'.direction,
                                 tileCounter).cells
           after == boards'[game'.board]
       IN /\ \A flown \in AfterFlight(slid) : Occupied(flown) # allCoordinates(Size(flown))
          /\ game'.summary.spawned
          /\ \E flown \in AfterFlight(slid) :
               /\ Cardinality(Occupied(after)) = Cardinality(Occupied(flown)) + 1
               /\ IdsOn(flown) \subseteq IdsOn(after)
               /\ Cardinality(NewHouseholds(flown, after)) = 1
               /\ \A x \in Occupied(flown) :
                    Identity(after[x.row][x.col]) = Identity(flown[x.row][x.col])]_vars

\* the first turn on a board of side 2 that was full: one merge made room
\* for the household, and the board is full again
SpawnedIntoLastEmptyCell ==
  /\ variant = "slide" /\ lastOp.op = "applyTurn" /\ game.turn = 1
  /\ Size(boards[game.board]) = 2 /\ rawConfig.initialTiles = 4
  /\ game.summary.moved /\ game.summary.merges = 1 /\ game.summary.spawned
  /\ Cardinality(Occupied(boards[game.board])) = 4

(***************************************************************************)
(* Slide-and-merge engine: active states.                                  *)
(***************************************************************************)
\* C37: in every state of the slide variant with gameOver = false, the state
\* returned by createInitialState included, applyTurn reports moved = true for
\* at least one of the four directions, and not all households are locked.
NoStuckActiveSlideState ==
  (variant = "slide" /\ ~game.gameOver) =>
    /\ \E direction \in Directions :
         slideAndMerge(boards[game.board], game.board, direction, tileCounter).moved
    /\ ~AllHouseholdsLocked(boards[game.board])

(***************************************************************************)
(* Relocation engine: active states.                                       *)
(***************************************************************************)
\* C38: in every state of the relocation variant with gameOver = false, the
\* state returned by createInitialState included, applyTurn advances the turn
\* for some selected cell and direction: an unhappy household exists and an
\* empty cell lies strictly in one of its four half-planes.
NoStuckActiveRelocState ==
  (variant = "reloc" /\ ~game.gameOver) =>
    /\ \E selected \in allCoordinates(Size(boards[game.board])), direction \in Directions :
         /\ isHousehold(boards[game.board][selected.row][selected.col])
         /\ applyTurnReloc(game, selected, direction, rawConfig, boards).state.turn
              = game.turn + 1
    /\ \E x, y \in allCoordinates(Size(boards[game.board])), direction \in Directions :
         /\ isHousehold(boards[game.board][x.row][x.col])
         /\ boards[game.board][x.row][x.col].unhappy
         /\ boards[game.board][y.row][y.col] = NoTile
         /\ isInDirection(x, y, direction)

(***************************************************************************)
(* Relocation engine: length of a game.                                    *)
(***************************************************************************)
\* the call of the step is an accepted move: the game is active, the selected
\* cell holds an unhappy household and an empty cell lies in the direction
AcceptedMove ==
  LET before == boards[game.board]
      selected == lastOp'.selected
  IN /\ RelocTurnStep /\ ~game.gameOver
     /\ isInBounds(before, selected.row, selected.col)
     /\ isHousehold(before[selected.row][selected.col])
     /\ before[selected.row][selected.col].unhappy
     /\ \E y \in allCoordinates(Size(before)) :
          before[y.row][y.col] = NoTile /\ isInDirection(selected, y, lastOp'.direction)

\* C39: in the relocation variant the turn grows by 1 on each accepted move
\* and by 0 on every other call, never exceeds maxTurns clamped to 10 .. 80,
\* and a game at that turn is over: a game has at most that many accepted
\* moves.
BoundedGameLength ==
  /\ [](variant = "reloc" =>
          /\ game.turn <= TurnLimit
          /\ game.turn = TurnLimit => game.gameOver)
  /\ [][variant = "reloc" =>
          /\ game'.turn = game.turn + (IF AcceptedMove THEN 1 ELSE 0)
          /\ AcceptedMove => game.turn < TurnLimit]_vars

\* a game configured with maxTurns = 11 is over after eleven accepted moves
EleventhMoveEndsGame ==
  /\ variant = "reloc" /\ lastOp.op = "applyTurn"
  /\ rawConfig.maxTurns = 11 /\ game.turn = 11 /\ game.gameOver
  /\ game.summary.moved

(***************************************************************************)
(* Both engines: the outcome of a finished game.                           *)
(***************************************************************************)
\* C40: from a state of either variant with gameOver = true and reason R
\* every call of applyTurn or endSession returns a state with
\* gameOver = true and gameOverReason = R.
OutcomeIsNeverReplaced ==
  [][(InGame /\ game.gameOver /\ lastOp'.op \in {"applyTurn", "endSession"}) =>
       game'.gameOver /\ game'.gameOverReason = game.gameOverReason]_vars

====
